---- MODULE Spec2Model ----
(***************************************************************************)
(* A model of vexy-overnight's continuation hand-off: the session state    *)
(* file (session_state.py), the helper's launch_from_config and the prompt *)
(* of a hand-off (hook_runtime.py), the backup-validate-replace writes of  *)
(* ConfigManager (config.py), the user settings (user_settings.py), the    *)
(* hooks that HookManager installs and the templates of hooks_tpl          *)
(* (hooks.py), the vomgr command line (cli.py), the updater (updater.py),  *)
(* the instruction files (rules.py) and the version bump tool              *)
(* (tools/version_bump.py).                                                *)
(*                                                                         *)
(* Thirteen specifications share the module.  Spec drives the operations   *)
(* of SessionStateManager on the state file and the process table,         *)
(* LaunchSpec the helper's hand-offs on the same state, ConfigSpec one     *)
(* configuration file with its temporary file and its backups, HookSpec    *)
(* the hook and helper scripts under the home directory, SettingsSpec      *)
(* saves and loads of settings.toml, CliSpec the commands of vomgr,        *)
(* BumpSpec the tags of a git repository, UpdateSpec vomgr update and its  *)
(* log, RulesSpec the copies of one instruction file under sync_files and  *)
(* PromptSpec build_prompt on the TODO.md and PLAN.md of a project.  Three *)
(* more follow overlapping runs step by step: RaceSpec two helpers in      *)
(* rotate_session, OverlapSpec two invocations of a hook with their        *)
(* helpers, and BesideSpec a ConfigManager write beside another writer.    *)
(***************************************************************************)
EXTENDS Integers, Sequences, FiniteSets, TLC

VARIABLES
    stateFile,  \* content of ~/.vexy-overnight/session_state.json
    procs,      \* the operating system's process table, by pid
    calls,      \* process-level calls made by the last operation, in order
    ret,        \* what the last session operation was given and returned
    now,        \* the wall clock, in whole seconds
    family,     \* which configuration file this behaviour edits
    target,     \* content of the configuration file
    tmp,        \* content of <target>.tmp
    backups,    \* content of <target>.backup.<stamp>, by stamp
    cres,       \* what the last configuration operation did
    home,       \* the hook scripts, helper scripts and launcher configs under ~
    hres,       \* what the last hook operation did
    cli,        \* what the last vomgr command was given, called and returned
    sres,       \* what the last settings operation was given and returned
    tags,       \* the tags `git tag -l` lists, in the order it lists them
    bump,       \* what the last run of the version bump tool did
    updateLog,  \* the lines of ~/.vexy-overnight/update.log
    upd,        \* what the last vomgr update was given and ran
    rot,        \* where each of two overlapping hand-offs is in its rotate_session
    inv,        \* where each of two overlapping hook invocations and its helper is
    wr,         \* where one write of ConfigManager is, another process at work beside it
    tree,       \* the instruction files of one name: the paths and the inodes behind them
    sync,       \* what the last sync_files found and was answered
    built       \* the last build_prompt: its arguments and the prompt it returned

sessionVars == <<stateFile, procs, calls, ret>>
configVars == <<family, target, tmp, backups, cres>>
moreVars == <<updateLog, upd, rot, inv, wr, tree, sync, built>>
toolVars == <<home, hres, cli, sres, tags, bump, moreVars>>
vars == <<stateFile, procs, calls, ret, now, family, target, tmp, backups, cres,
          home, hres, cli, sres, tags, bump, updateLog, upd, rot, inv, wr, tree, sync, built>>

----------------------------------------------------------------------------
(* Bounds of the model *)

MaxPid == 2
MaxClock == 1

Pids == 1..MaxPid
Clock == 0..MaxClock

----------------------------------------------------------------------------
(* Python values *)

\* datetime.now().isoformat() / f"{datetime.now():%Y%m%d_%H%M%S}": one text per second
IsoFormat(c) == "T" \o ToString(c)

\* os.getcwd() of the process that calls write_session
Getcwd == "/helper"

\* JSON values as json.load returns them
JNull == [t |-> "null"]
JInt(n) == [t |-> "int", n |-> n]
JStr(s) == [t |-> "str", s |-> s]
JList == [t |-> "list"]
JObj(f) == [t |-> "obj", f |-> f]

\* str(value) on a JSON value
PyStr(j) ==
    CASE j.t = "str" -> j.s
      [] j.t = "int" -> ToString(j.n)
      [] j.t = "null" -> "None"
      [] j.t = "list" -> "[]"
      [] OTHER -> "{...}"

\* the integers whose decimal text the model can hold
Numerals == 0..(MaxPid + 1)

\* int(value) on a JSON value: [raised, n]
PyInt(j) ==
    CASE j.t = "int" -> [raised |-> "", n |-> j.n]
      [] j.t = "str" ->
            IF \E n \in Numerals : ToString(n) = j.s
            THEN [raised |-> "", n |-> CHOOSE n \in Numerals : ToString(n) = j.s]
            ELSE [raised |-> "ValueError", n |-> 0]
      [] OTHER -> [raised |-> "TypeError", n |-> 0]

\* data[key]: [raised, v]
Subscript(data, key) ==
    IF data.t # "obj" THEN [raised |-> "TypeError", v |-> JNull]
    ELSE IF key \notin DOMAIN data.f THEN [raised |-> "KeyError", v |-> JNull]
    ELSE [raised |-> "", v |-> data.f[key]]

----------------------------------------------------------------------------
(* SessionInfo *)

NoInfo == [tool |-> "", pid |-> 0, start_time |-> "", cwd |-> ""]

SessionInfo(tool, pid, start_time, cwd) ==
    [tool |-> tool, pid |-> pid, start_time |-> start_time, cwd |-> cwd]

SessionKeys == {"tool", "pid", "start_time", "cwd"}

\* to_dict with the values of start_time and cwd exchanged
to_dict_swapped(s) ==
    JObj([k \in SessionKeys |->
            CASE k = "tool" -> JStr(s.tool)
              [] k = "pid" -> JInt(s.pid)
              [] k = "start_time" -> JStr(s.cwd)
              [] OTHER -> JStr(s.start_time)])

to_dict(s) ==
    JObj([k \in SessionKeys |->
            CASE k = "tool" -> JStr(s.tool)
              [] k = "pid" -> JInt(s.pid)
              [] k = "start_time" -> JStr(s.start_time)
              [] OTHER -> JStr(s.cwd)])

\* the fields are evaluated in the order tool, pid, start_time, cwd; the
\* first exception ends the call
from_dict(data) ==
    LET a == Subscript(data, "tool")
        b == Subscript(data, "pid")
        n == PyInt(b.v)
        c == Subscript(data, "start_time")
        d == Subscript(data, "cwd")
        fail(e) == [raised |-> e, info |-> NoInfo]
    IN  IF a.raised # "" THEN fail(a.raised)
        ELSE IF b.raised # "" THEN fail(b.raised)
        ELSE IF n.raised # "" THEN fail(n.raised)
        ELSE IF c.raised # "" THEN fail(c.raised)
        ELSE IF d.raised # "" THEN fail(d.raised)
        ELSE [raised |-> "",
              info |-> SessionInfo(PyStr(a.v), n.n, PyStr(c.v), PyStr(d.v))]

----------------------------------------------------------------------------
(* Files *)

Missing == [exists |-> FALSE]
NotJson == [exists |-> TRUE, json |-> FALSE]
JsonFile(v) == [exists |-> TRUE, json |-> TRUE, v |-> v]

\* json.dump(session.to_dict(), f)
DumpSession(session) == JsonFile(to_dict(session))

\* read_session: [raised, found, info]
read_session(file) ==
    LET none == [raised |-> "", found |-> FALSE, info |-> NoInfo]
    IN  IF ~file.exists THEN none
        ELSE IF ~file.json THEN none
        ELSE LET r == from_dict(file.v)
             IN  IF r.raised \in {"KeyError", "ValueError"} THEN none
                 ELSE IF r.raised # "" THEN [raised |-> r.raised, found |-> FALSE, info |-> NoInfo]
                 ELSE [raised |-> "", found |-> TRUE, info |-> r.info]

\* write_session: [file, info]
write_session(tool, pid, cwd, clock) ==
    LET session == SessionInfo(tool, pid, IsoFormat(clock), IF cwd # "" THEN cwd ELSE Getcwd)
    IN  [file |-> DumpSession(session), info |-> session]

----------------------------------------------------------------------------
(* Processes *)

NoProc == [exists |-> FALSE, name |-> ""]
Proc(name) == [exists |-> TRUE, name |-> name]

\* the names processes carry in the model
ProcessNames == {"Codex", "notepad"}

\* a process name, character by character
Chars(name) ==
    CASE name = "Codex" -> <<"C", "o", "d", "e", "x">>
      [] name = "notepad" -> <<"n", "o", "t", "e", "p", "a", "d">>
      [] name = "claude" -> <<"c", "l", "a", "u", "d", "e">>
      [] name = "codex" -> <<"c", "o", "d", "e", "x">>
      [] name = "gemini" -> <<"g", "e", "m", "i", "n", "i">>
      [] name = "CLAUDE" -> <<"C", "L", "A", "U", "D", "E">>
      [] name = "Gemini" -> <<"G", "e", "m", "i", "n", "i">>
      [] name = "cursor" -> <<"c", "u", "r", "s", "o", "r">>
      [] name = "claude " -> <<"c", "l", "a", "u", "d", "e", " ">>
      [] OTHER -> <<>>

\* str.lower(), one character at a time
LowerChar(c) ==
    CASE c = "C" -> "c"
      [] c = "G" -> "g"
      [] c = "L" -> "l"
      [] c = "A" -> "a"
      [] c = "U" -> "u"
      [] c = "D" -> "d"
      [] c = "E" -> "e"
      [] OTHER -> c

lower(chars) == [i \in 1..Len(chars) |-> LowerChar(chars[i])]

\* `word in name`
Contains(word, chars) ==
    \E i \in 1..(Len(chars) - Len(word) + 1) : SubSeq(chars, i, i + Len(word) - 1) = word

ToolWords ==
    { <<"c", "l", "a", "u", "d", "e">>,
      <<"c", "o", "d", "e", "x">>,
      <<"g", "e", "m", "i", "n", "i">> }

\* the name check left out
NameMatchesAny(name) == TRUE

NameMatches(name) == \E w \in ToolWords : Contains(w, lower(Chars(name)))

\* process.wait(timeout=5)
WaitTimeout == 5

Call(c, pid) == [c |-> c, pid |-> pid, timeout |-> IF c = "wait" THEN WaitTimeout ELSE 0]

\* What one kill_old_session call can be answered: `import psutil` succeeds
\* or raises ImportError; Process(pid).name(), terminate() and kill() return
\* or raise NoSuchProcess / AccessDenied; wait() returns or raises
\* TimeoutExpired.  An answer that is never asked for (the call ended
\* before) is left at its first value.
KillOutcomes ==
    { o \in [ import : {"ok", "ImportError"},
              name : {"ok", "NoSuchProcess", "AccessDenied"},
              terminate : {"ok", "NoSuchProcess", "AccessDenied"},
              wait : {"exit", "timeout"},
              kill : {"ok", "NoSuchProcess", "AccessDenied"} ] :
        /\ (o.import # "ok" => o.name = "ok")
        /\ (o.name # "ok" => o.terminate = "ok" /\ o.wait = "exit")
        /\ (o.terminate # "ok" => o.wait = "exit")
        /\ (o.wait = "exit" => o.kill = "ok") }

NoOutcome == [import |-> "ok", name |-> "ok", terminate |-> "ok", wait |-> "exit", kill |-> "ok"]

\* kill_old_session that kills at once instead of terminating and waiting
kill_old_session_kill_first(ps, session, o) ==
    LET pid == session.pid
    IN  IF o.import = "ok" /\ pid \in DOMAIN ps /\ ps[pid].exists /\ o.name = "ok"
           /\ NameMatches(ps[pid].name)
        THEN [result |-> TRUE, calls |-> <<Call("kill", pid), Call("terminate", pid)>>,
              procs |-> [ps EXCEPT ![pid] = NoProc]]
        ELSE [result |-> FALSE, calls |-> <<>>, procs |-> ps]

\* kill_old_session: [result, calls, procs]
kill_old_session(ps, session, o) ==
    LET pid == session.pid
        stop(result, cs, table) == [result |-> result, calls |-> cs, procs |-> table]
        gone == IF pid \in DOMAIN ps THEN [ps EXCEPT ![pid] = NoProc] ELSE ps
    IN  IF o.import # "ok" THEN stop(FALSE, <<>>, ps)
        ELSE IF pid \notin DOMAIN ps \/ ~ps[pid].exists THEN stop(FALSE, <<>>, ps)
        ELSE IF o.name = "NoSuchProcess" THEN stop(FALSE, <<>>, gone)
        ELSE IF o.name = "AccessDenied" THEN stop(FALSE, <<>>, ps)
        ELSE IF ~NameMatches(ps[pid].name) THEN stop(FALSE, <<>>, ps)
        ELSE IF o.terminate = "NoSuchProcess"
             THEN stop(FALSE, <<Call("terminate", pid)>>, gone)
        ELSE IF o.terminate = "AccessDenied"
             THEN stop(FALSE, <<Call("terminate", pid)>>, ps)
        ELSE IF o.wait = "exit"
             THEN stop(TRUE, <<Call("terminate", pid), Call("wait", pid)>>, gone)
        ELSE IF o.kill = "NoSuchProcess"
             THEN stop(FALSE, <<Call("terminate", pid), Call("wait", pid), Call("kill", pid)>>, gone)
        ELSE IF o.kill = "AccessDenied"
             THEN stop(FALSE, <<Call("terminate", pid), Call("wait", pid), Call("kill", pid)>>, ps)
        ELSE stop(TRUE, <<Call("terminate", pid), Call("wait", pid), Call("kill", pid)>>, gone)

\* rotate_session: [raised, file, procs, calls, info]
rotate_session(file, ps, tool, pid, cwd, kill_old, o, clock) ==
    LET old == read_session(file)
        k == IF kill_old /\ old.found
             THEN kill_old_session(ps, old.info, o)
             ELSE [result |-> FALSE, calls |-> <<>>, procs |-> ps]
        w == write_session(tool, pid, cwd, clock)
    IN  IF old.raised # ""
        THEN [raised |-> old.raised, file |-> file, procs |-> ps, calls |-> <<>>, info |-> NoInfo]
        ELSE [raised |-> "", file |-> w.file, procs |-> k.procs,
              calls |-> k.calls \o <<Call("write", pid)>>, info |-> w.info]

----------------------------------------------------------------------------
(* launch_from_config *)

TargetKey == "VOMGR_TARGET_TOOL"
KillKey == "VOMGR_KILL_OLD"

\* str.strip() on the cwd texts of the model
Strip(s) ==
    CASE s = " /proj " -> "/proj"
      [] s = "  " -> ""
      [] OTHER -> s

\* env_updates.get(key, default)
EnvGet(env, key, default) == IF key \in DOMAIN env THEN env[key] ELSE default

\* [str(part) for part in config.get("command", []) if str(part)]
CommandOf(config) == SelectSeq(config.command, LAMBDA part : part # "")

NoEnv == [k \in {} |-> ""]
NoConfig == [command |-> <<>>, cwd |-> "", env |-> NoEnv]

\* launch_from_config that terminates the recorded session before it starts
\* the new process
launch_from_config_kill_first(file, ps, config, popen, newpid, o, clock) ==
    LET old == read_session(file)
        k == IF old.found THEN kill_old_session(ps, old.info, o)
             ELSE [result |-> FALSE, calls |-> <<>>, procs |-> ps]
        started == [k.procs EXCEPT ![newpid] = Proc(popen)]
        w == write_session(EnvGet(config.env, TargetKey, "claude"), newpid, Strip(config.cwd), clock)
    IN  IF CommandOf(config) = <<>>
        THEN [started |-> FALSE, file |-> file, procs |-> ps, calls |-> <<>>, swallowed |-> ""]
        ELSE IF popen = ""
        THEN [started |-> FALSE, file |-> file, procs |-> k.procs, calls |-> k.calls,
              swallowed |-> ""]
        ELSE [started |-> TRUE, file |-> w.file, procs |-> started,
              calls |-> k.calls \o <<Call("Popen", newpid), Call("write", newpid)>>,
              swallowed |-> old.raised]

\* launch_from_config once Popen has answered: popen is the name of the new
\* process, or "" when Popen raised, and newpid is the pid the system gave
\* it.  [started, file, procs, calls, swallowed]
launch_from_config(file, ps, config, popen, newpid, o, clock) ==
    LET command == CommandOf(config)
        cwd_value == Strip(config.cwd)
        env_updates == config.env
        target_tool == EnvGet(env_updates, TargetKey, "claude")
        kill_old == EnvGet(env_updates, KillKey, "1") = "1"
        started == [ps EXCEPT ![newpid] = Proc(popen)]
        r == rotate_session(file, started, target_tool, newpid,
                            IF cwd_value # "" THEN cwd_value ELSE Getcwd,
                            kill_old, o, clock)
        quiet == [started |-> FALSE, file |-> file, procs |-> ps, calls |-> <<>>, swallowed |-> ""]
    IN  IF command = <<>> THEN quiet
        ELSE IF popen = "" THEN quiet
        ELSE [started |-> TRUE, file |-> r.file, procs |-> r.procs,
              calls |-> <<Call("Popen", newpid)>> \o r.calls, swallowed |-> r.raised]

----------------------------------------------------------------------------
(* The session specification *)

Tools == {"claude", "codex"}
CwdArgs == {"", "/proj"}    \* "" stands for a cwd argument that is None or empty

\* a record that lacks a field, one whose pid is no number, one whose pid is
\* null, and one whose pid is the text of a number
BrokenRecords ==
    { JObj([k \in SessionKeys \ {"cwd"} |-> JStr("x")]),
      JObj([k \in SessionKeys |-> JStr("x")]),
      JObj([k \in SessionKeys |-> IF k = "pid" THEN JNull ELSE JStr("x")]),
      JObj([k \in SessionKeys |-> IF k = "pid" THEN JStr("2") ELSE JStr("x")]) }

InitialFiles ==
    {Missing, NotJson, JsonFile(JList), JsonFile(JStr("x"))}
        \cup {JsonFile(v) : v \in BrokenRecords}
        \cup {DumpSession(SessionInfo("claude", 1, IsoFormat(0), "/proj"))}

Envs ==
    { NoEnv,
      [k \in {TargetKey, KillKey} |-> IF k = TargetKey THEN "codex" ELSE "0"],
      [k \in {TargetKey, KillKey} |-> IF k = TargetKey THEN "codex" ELSE "1"] }

Configs ==
    {[command |-> <<"">>, cwd |-> "/proj", env |-> NoEnv]}
        \cup [command : {<<"", "codex">>}, cwd : {"", " /proj "}, env : Envs]

NoRet ==
    [ op |-> "", raised |-> "", result |-> FALSE, found |-> FALSE, info |-> NoInfo,
      arg |-> NoInfo, kill_old |-> FALSE, victim0 |-> NoProc,
      o |-> NoOutcome, started |-> FALSE, config |-> NoConfig ]

ProcAt(ps, pid) == IF pid \in DOMAIN ps THEN ps[pid] ELSE NoProc

\* the answers a kill_old_session call on `session` asks for: the import
\* always, the name when the pid exists, the rest when the name matches
Asked(ps, session) ==
    LET victim == ProcAt(ps, session.pid)
    IN  IF ~victim.exists THEN {o \in KillOutcomes : o.name = "ok" /\ o.terminate = "ok" /\ o.wait = "exit"}
        ELSE IF ~NameMatches(victim.name) THEN {o \in KillOutcomes : o.terminate = "ok" /\ o.wait = "exit"}
        ELSE KillOutcomes

SessionInit ==
    /\ stateFile \in InitialFiles
    /\ procs \in [Pids -> {NoProc} \cup {Proc(n) : n \in ProcessNames}]
    /\ calls = <<>>
    /\ ret = NoRet
    /\ now \in Clock

NoCres ==
    [ op |-> "", raised |-> "", wrote |-> FALSE, backup |-> -1, fail |-> "none",
      pre |-> Missing, backups0 |-> [c \in Clock |-> Missing] ]

ConfigIdle ==
    /\ family = "none"
    /\ target = Missing
    /\ tmp = Missing
    /\ backups = [c \in Clock |-> Missing]
    /\ cres = NoCres

\* The files HookManager and the hooks keep under the home directory: the
\* hook scripts, the helper scripts they spawn and the launcher configs the
\* hooks write for the helpers.
HookScripts == {"vocl-go.py", "voco-go.py", "voge-go.py"}
HelperScripts == {"vocl-new.py", "voco-new.py"}
LauncherConfigs == {"vocl-new.json", "voco-new.json"}

NoLauncher == [exists |-> FALSE, config |-> NoConfig]

\* a home directory that holds none of them; helpers is the set of source
\* tools whose helper script was spawned and has not run yet
NoHome ==
    [ scripts |-> [f \in HookScripts \cup HelperScripts |-> ""],
      configs |-> [f \in LauncherConfigs |-> NoLauncher],
      helpers |-> {} ]

NoHres ==
    [ op |-> "", source |-> "", launched |-> "", spawned |-> FALSE, status |-> 0,
      removed |-> "" ]

NoCli ==
    [ cmd |-> "", tool |-> "", arg |-> "", flags |-> {}, raised |-> "", called |-> <<>>,
      result |-> "" ]

\* a UserSettings object that holds nothing
NoSettings ==
    [ continuations |-> [k \in {} |-> ""],
      prompts |-> [k \in {} |-> ""],
      notifications |-> [enabled |-> FALSE, message |-> "", sound |-> ""],
      terminals |-> [defaults |-> [k \in {} |-> ""], per_tool |-> [k \in {} |-> ""]],
      kill_old_sessions |-> FALSE ]

\* given is the settings last handed to save_user_settings, fresh tells
\* that this save succeeded and the file is as it left it, settings is what
\* a load returned
NoSres == [op |-> "", given |-> NoSettings, raised |-> "", settings |-> NoSettings, fresh |-> FALSE]

\* what the system answers one run of the version bump tool: .git is there
\* or not, git status prints nothing, something, or fails, and each of git
\* pull, git tag -l, git tag, git push and git push --tags succeeds or
\* fails; pulled is the tags a successful pull fetched
FineBump ==
    [ repo |-> TRUE, status |-> "clean", pull |-> TRUE, pulled |-> <<>>, list |-> TRUE,
      tag |-> TRUE, push |-> TRUE, push_tags |-> TRUE ]

\* ran is the checks and git commands run, in order; version is the tag
\* computed, as the texts between its dots; tags0 is the tags before the run
NoBump ==
    [ op |-> "", ran |-> <<>>, status |-> 0, version |-> <<>>, env |-> FineBump,
      tags0 |-> <<>> ]

\* what one vomgr update was given and did: ran is the commands it ran and
\* logged the lines it appended to the update log, both in order
NoUpd ==
    [ op |-> "", flags |-> {}, skip |-> {}, ran |-> <<>>, logged |-> <<>>, raised |-> "",
      result |-> <<>> ]

\* The helpers whose hand-offs overlap, and where one of them is: pc is the
\* statement it is at, pid the process it started, old what its
\* read_session returned, overlaid whether another helper has written the
\* state file since this one opened it
Helpers == {"first", "second"}

Waiting ==
    [ pc |-> "Popen", pid |-> 0,
      old |-> [raised |-> "", found |-> FALSE, info |-> NoInfo], overlaid |-> FALSE ]

NoRot == [h \in Helpers |-> [Waiting EXCEPT !.pc = "idle"]]

\* Two invocations of one hook that overlap.  Of each: pc is the statement
\* the hook or its helper is at, overlaid whether the other has written the
\* launcher config since this one opened it, config what its helper loaded
\* and launched what its helper started.  order lists the invocations in the
\* order their writes of the launcher config ended.
Invocations == {"first", "second"}

Fresh == [pc |-> "open", overlaid |-> FALSE, config |-> NoConfig, launched |-> NoConfig]

NoInv == [at |-> [i \in Invocations |-> [Fresh EXCEPT !.pc = "idle"]], order |-> <<>>]

\* One _write_with_rollback in progress: pc is the statement it is at,
\* backup the stamp of its backup, pre what the target held when it began,
\* touched whether another process has written the target since
NoWr == [pc |-> "idle", backup |-> -1, pre |-> [exists |-> FALSE], touched |-> FALSE]

\* The copies of one instruction file (CLAUDE.md, say): at most MaxPaths
\* paths, in the order find_instruction_files lists them.  A path holds
\* nothing, a name of an inode (a regular file or a hard link to one) or a
\* symbolic link to another path; an inode has a content and a time of
\* modification.
MaxPaths == 3
Paths == 1..MaxPaths

NoPath == [kind |-> "none", ino |-> 0, to |-> 0]
File(i) == [kind |-> "file", ino |-> i, to |-> 0]
Symlink(q) == [kind |-> "symlink", ino |-> 0, to |-> q]

NoTree ==
    [ paths |-> [p \in Paths |-> NoPath],
      inodes |-> [i \in Paths |-> [content |-> "", mtime |-> 0]] ]

\* what the system answers one sync_files: the paths whose unlink raises,
\* those to which os.link raises and those at which symlink_to raises
FineSync == [unlink |-> {}, link |-> {}, symlink |-> {}]

NoSync == [op |-> "", discovered |-> <<>>, parent |-> 0, env |-> FineSync, pre |-> NoTree]

\* TODO.md or PLAN.md of a project directory: whether it exists, whether
\* read_text succeeds, and its lines, each the sequence of its characters
NoFile == [exists |-> FALSE, readable |-> FALSE, lines |-> <<>>]
TextFile(lines) == [exists |-> TRUE, readable |-> TRUE, lines |-> lines]
NoProject == [todo |-> NoFile, plan |-> NoFile]

NoBuilt ==
    [ op |-> "", prompts |-> [k \in {} |-> ""], source |-> "", target |-> "",
      project |-> NoProject, prompt |-> "" ]

\* nothing has run vomgr update or two hand-offs at once
MoreIdle ==
    /\ updateLog = <<>>
    /\ upd = NoUpd
    /\ rot = NoRot
    /\ inv = NoInv
    /\ wr = NoWr
    /\ tree = NoTree
    /\ sync = NoSync
    /\ built = NoBuilt

\* nothing has run the hooks, the command line or the version bump tool
ToolIdle ==
    /\ home = NoHome
    /\ hres = NoHres
    /\ cli = NoCli
    /\ sres = NoSres
    /\ tags = <<>>
    /\ bump = NoBump
    /\ MoreIdle

Init == SessionInit /\ ConfigIdle /\ ToolIdle

ReadSession ==
    LET r == read_session(stateFile)
    IN  /\ ret' = [NoRet EXCEPT !.op = "read", !.raised = r.raised, !.found = r.found,
                                !.info = r.info]
        /\ calls' = <<>>
        /\ UNCHANGED <<stateFile, procs, now, configVars, toolVars>>

WriteSession ==
    \E tool \in Tools, pid \in Pids, cwd \in CwdArgs :
        LET w == write_session(tool, pid, cwd, now)
        IN  /\ stateFile' = w.file
            /\ ret' = [NoRet EXCEPT !.op = "write", !.info = w.info,
                                    !.arg = SessionInfo(tool, pid, "", cwd)]
            /\ calls' = <<>>
            /\ UNCHANGED <<procs, now, configVars, toolVars>>

ClearSession ==
    /\ stateFile' = Missing
    /\ ret' = [NoRet EXCEPT !.op = "clear"]
    /\ calls' = <<>>
    /\ UNCHANGED <<procs, now, configVars, toolVars>>

KillOldSession ==
    \E pid \in Pids :
        LET session == SessionInfo("claude", pid, IsoFormat(0), "/proj")
        IN  \E o \in Asked(procs, session) :
                \E k \in {kill_old_session(procs, session, o)} :
                    /\ procs' = k.procs
                    /\ calls' = k.calls
                    /\ ret' = [NoRet EXCEPT !.op = "kill", !.result = k.result, !.arg = session,
                                            !.victim0 = procs[pid], !.o = o]
                    /\ UNCHANGED <<stateFile, now, configVars, toolVars>>

RotateSession ==
    \E tool \in Tools, pid \in Pids, cwd \in CwdArgs, kill_old \in BOOLEAN :
        LET old == read_session(stateFile)
        IN  \E o \in IF kill_old /\ old.found THEN Asked(procs, old.info) ELSE {NoOutcome} :
                \E r \in {rotate_session(stateFile, procs, tool, pid, cwd, kill_old, o, now)} :
                    /\ stateFile' = r.file
                    /\ procs' = r.procs
                    /\ calls' = r.calls
                    /\ ret' = [NoRet EXCEPT !.op = "rotate", !.raised = r.raised, !.info = r.info,
                                            !.arg = SessionInfo(tool, pid, "", cwd),
                                            !.kill_old = kill_old,
                                            !.victim0 = ProcAt(procs, old.info.pid), !.o = o]
                    /\ UNCHANGED <<now, configVars, toolVars>>

\* The helper up to process.wait(): Popen, rotate_session, the notification.
\* Popen gives the new process a pid that no running process holds.
LaunchFromConfig ==
    \E config \in Configs, popen \in ProcessNames \cup {""} :
        LET starts == CommandOf(config) # <<>> /\ popen # ""
        IN  \E newpid \in IF starts THEN {p \in Pids : ~procs[p].exists} ELSE {0} :
                LET old == read_session(stateFile)
                    kills == starts /\ old.found /\ EnvGet(config.env, KillKey, "1") = "1"
                    after == IF starts THEN [procs EXCEPT ![newpid] = Proc(popen)] ELSE procs
                IN  \E o \in IF kills THEN Asked(after, old.info) ELSE {NoOutcome} :
                        \E l \in {launch_from_config(stateFile, procs, config, popen, newpid, o, now)} :
                            /\ stateFile' = l.file
                            /\ procs' = l.procs
                            /\ calls' = l.calls
                            /\ ret' = [NoRet EXCEPT !.op = "launch", !.raised = l.swallowed,
                                                    !.started = l.started, !.config = config,
                                                    !.arg = SessionInfo("", newpid, "", ""),
                                                    !.victim0 = ProcAt(after, old.info.pid),
                                                    !.o = o]
                            /\ UNCHANGED <<now, configVars, toolVars>>

\* a process ends by itself
ProcessExit ==
    \E pid \in Pids :
        /\ procs[pid].exists
        /\ procs' = [procs EXCEPT ![pid] = NoProc]
        /\ ret' = NoRet
        /\ calls' = <<>>
        /\ UNCHANGED <<stateFile, now, configVars, toolVars>>

\* the operations of SessionStateManager
Next ==
    \/ ReadSession
    \/ WriteSession
    \/ ClearSession
    \/ KillOldSession
    \/ RotateSession
    \/ ProcessExit

Spec == Init /\ [][Next]_vars

\* the helper's hand-offs
LaunchNext ==
    \/ LaunchFromConfig
    \/ ProcessExit

LaunchSpec == Init /\ [][LaunchNext]_vars

----------------------------------------------------------------------------
(* Configuration files *)

\* A behaviour of ConfigSpec edits one file: ~/.claude/settings.json,
\* ~/.codex/config.toml or ~/.vexy-overnight/settings.toml.  The operations
\* on one of them never touch the others or their backups.
Families == {"claude", "codex", "settings"}

EmptyDict == [k \in {} |-> ""]

\* a file that exists: syntax tells whether it parses, doc is what it parses to
Doc(d) == [exists |-> TRUE, syntax |-> TRUE, doc |-> d]
BadSyntax == [exists |-> TRUE, syntax |-> FALSE, doc |-> EmptyDict]

\* dict[key] = value and del dict[key]
SetKey(d, key, value) == [k \in DOMAIN d \cup {key} |-> IF k = key THEN value ELSE d[k]]
DelKey(d, key) == [k \in DOMAIN d \ {key} |-> d[k]]

\* dict.get(key, default)
GetKey(d, key, default) == IF key \in DOMAIN d THEN d[key] ELSE default

\* The commands of hooks, by what they run: the helper of this package, the
\* legacy script it replaces, or something of the user's.
VoclGo == "vocl-go.py"
VocoGo == "voco-go.py"
Claude4ever == "claude4ever.py"
Codex4ever == "codex4ever.py"
UserHook == "user.sh"

\* _load_json / _load_toml: [raised, config]
load(file) ==
    IF ~file.exists THEN [raised |-> "", config |-> EmptyDict]
    ELSE IF ~file.syntax THEN [raised |-> "DecodeError", config |-> EmptyDict]
    ELSE [raised |-> "", config |-> file.doc]

\* the stamp of no backup
NoBackup == -1

\* backup_config that leaves a backup of the same stamp in place
backup_config_once(fs, clock) ==
    IF ~fs.target.exists
    THEN [fs |-> fs, backup |-> NoBackup]
    ELSE IF fs.backups[clock].exists THEN [fs |-> fs, backup |-> clock]
    ELSE [fs |-> [fs EXCEPT !.backups[clock] = fs.target], backup |-> clock]

\* backup_config with the copy left out
backup_config_no_copy(fs, clock) ==
    IF ~fs.target.exists
    THEN [fs |-> fs, backup |-> NoBackup]
    ELSE [fs |-> fs, backup |-> clock]

\* backup_config: [fs, backup], backup the stamp of the copy or NoBackup
backup_config(fs, clock) ==
    IF ~fs.target.exists
    THEN [fs |-> fs, backup |-> NoBackup]
    ELSE [fs |-> [fs EXCEPT !.backups[clock] = fs.target], backup |-> clock]

\* _restore_from_backup that removes the target whenever it exists
restore_from_backup_unlink(fs, backup) ==
    IF fs.target.exists THEN [fs EXCEPT !.target = Missing] ELSE fs

\* _restore_from_backup
restore_from_backup(fs, backup) ==
    IF backup # NoBackup /\ fs.backups[backup].exists
    THEN [fs EXCEPT !.target = fs.backups[backup]]
    ELSE IF backup = NoBackup /\ fs.target.exists
    THEN [fs EXCEPT !.target = Missing]
    ELSE fs

\* where a write can fail: opening the temporary file, writing to it,
\* validating it, or replacing the target by it
Failures == {"none", "open", "write", "validate", "replace"}

\* an except branch that removes the temporary file and restores nothing
rollback_tmp_only(fs, backup) == [fs EXCEPT !.tmp = Missing]

\* the except branch of _write_with_rollback
rollback(fs, backup) ==
    restore_from_backup([fs EXCEPT !.tmp = Missing], backup)

\* _write_with_rollback: [fs, raised, backup]
write_with_rollback(fs, data, fail, clock) ==
    LET b == backup_config(fs, clock)
        cleared == [b.fs EXCEPT !.tmp = Missing]
        opened == [cleared EXCEPT !.tmp = BadSyntax]
        written == [cleared EXCEPT !.tmp = Doc(data)]
        failed(at, e) == [fs |-> rollback(at, b.backup), raised |-> e, backup |-> b.backup]
    IN  CASE fail = "open" -> failed(cleared, "OSError")
          [] fail = "write" -> failed(opened, "RuntimeError")
          [] fail = "validate" -> failed(written, "ValueError")
          [] fail = "replace" -> failed(written, "OSError")
          [] OTHER -> [fs |-> [written EXCEPT !.target = Doc(data), !.tmp = Missing],
                       raised |-> "", backup |-> b.backup]

\* what an operation did: [fs, raised, wrote, backup]; wrote tells whether it
\* reached the write of the target
Done(fs, raised, wrote, backup) ==
    [fs |-> fs, raised |-> raised, wrote |-> wrote, backup |-> backup]

Write(fs, data, fail, clock) ==
    LET w == write_with_rollback(fs, data, fail, clock)
    IN  Done(w.fs, w.raised, TRUE, w.backup)

\* enable_claude_hook
enable_claude_hook(fs, fail, clock) ==
    LET l == load(fs.target)
        hooks == SetKey(GetKey(l.config, "hooks", EmptyDict), "Stop", <<VoclGo>>)
    IN  IF l.raised # "" THEN Done(fs, l.raised, FALSE, NoBackup)
        ELSE Write(fs, SetKey(l.config, "hooks", hooks), fail, clock)

\* disable_claude_hook that removes every hook of the file with the Stop hook
disable_claude_hook_all_hooks(fs, fail, clock) ==
    LET l == load(fs.target)
    IN  IF ~fs.target.exists THEN Done(fs, "", FALSE, NoBackup)
        ELSE IF l.raised # "" THEN Done(fs, l.raised, FALSE, NoBackup)
        ELSE IF "hooks" \in DOMAIN l.config /\ "Stop" \in DOMAIN l.config["hooks"]
        THEN Write(fs, DelKey(l.config, "hooks"), fail, clock)
        ELSE Done(fs, "", FALSE, NoBackup)

\* disable_claude_hook
disable_claude_hook(fs, fail, clock) ==
    LET l == load(fs.target)
        hooks == DelKey(l.config["hooks"], "Stop")
        config == IF hooks = EmptyDict THEN DelKey(l.config, "hooks")
                  ELSE SetKey(l.config, "hooks", hooks)
    IN  IF ~fs.target.exists THEN Done(fs, "", FALSE, NoBackup)
        ELSE IF l.raised # "" THEN Done(fs, l.raised, FALSE, NoBackup)
        ELSE IF "hooks" \in DOMAIN l.config /\ "Stop" \in DOMAIN l.config["hooks"]
        THEN Write(fs, config, fail, clock)
        ELSE Done(fs, "", FALSE, NoBackup)

\* enable_codex_hook
enable_codex_hook(fs, fail, clock) ==
    LET l == load(fs.target)
    IN  IF l.raised # "" THEN Done(fs, l.raised, FALSE, NoBackup)
        ELSE Write(fs, SetKey(l.config, "notify", <<VocoGo>>), fail, clock)

\* disable_codex_hook
disable_codex_hook(fs, fail, clock) ==
    LET l == load(fs.target)
    IN  IF ~fs.target.exists THEN Done(fs, "", FALSE, NoBackup)
        ELSE IF l.raised # "" THEN Done(fs, l.raised, FALSE, NoBackup)
        ELSE IF "notify" \in DOMAIN l.config
        THEN Write(fs, DelKey(l.config, "notify"), fail, clock)
        ELSE Done(fs, "", FALSE, NoBackup)

\* a list of commands with every `legacy` command replaced by `helper`
Rewritten(commands, legacy, helper) ==
    [i \in 1..Len(commands) |-> IF commands[i] = legacy THEN helper ELSE commands[i]]

\* migrate_from_legacy, the Claude half; clock2 is the time of its write
migrate_claude(fs, fail, clock, clock2) ==
    LET b == backup_config(fs, clock)
        l == load(fs.target)
        hooks == GetKey(l.config, "hooks", EmptyDict)
        config == IF "Stop" \in DOMAIN hooks
                  THEN SetKey(l.config, "hooks",
                              SetKey(hooks, "Stop", Rewritten(hooks["Stop"], Claude4ever, VoclGo)))
                  ELSE l.config
    IN  IF ~fs.target.exists THEN Done(fs, "", FALSE, NoBackup)
        ELSE IF l.raised # "" THEN Done(b.fs, l.raised, FALSE, b.backup)
        ELSE Write(b.fs, config, fail, clock2)

\* migrate_from_legacy, the Codex half
migrate_codex(fs, fail, clock, clock2) ==
    LET b == backup_config(fs, clock)
        l == load(fs.target)
        values == Rewritten(GetKey(l.config, "notify", <<>>), Codex4ever, VocoGo)
    IN  IF ~fs.target.exists THEN Done(fs, "", FALSE, NoBackup)
        ELSE IF l.raised # "" THEN Done(b.fs, l.raised, FALSE, b.backup)
        ELSE IF values # <<>> THEN Write(b.fs, SetKey(l.config, "notify", values), fail, clock2)
        ELSE Done(b.fs, "", FALSE, b.backup)

\* setup_configs, one file
setup_configs(fs, fail, clock) ==
    IF ~fs.target.exists THEN Write(fs, EmptyDict, fail, clock)
    ELSE Done(fs, "", FALSE, NoBackup)

\* backup_legacy_configs, one file
backup_legacy_configs(fs, clock) ==
    LET b == backup_config(fs, clock)
    IN  Done(b.fs, "", FALSE, b.backup)

\* the tools a continuation may name
CONTINUATION_TOOLS == {"claude", "codex", "gemini"}

\* UserSettings.validate
validate(settings) ==
    IF \E source \in DOMAIN settings.continuations :
            settings.continuations[source].target \notin CONTINUATION_TOOLS
    THEN "ValueError" ELSE ""

\* _DEFAULT_PROMPTS and _DEFAULT_TERMINAL_DEFAULTS: a text stands for each
\* prompt template and for each terminal command
DefaultPrompts == [tool \in CONTINUATION_TOOLS |-> "prompt of " \o tool]
Platforms == {"darwin", "windows", "linux"}
DefaultTerminalDefaults == [p \in Platforms |-> "terminal of " \o p]

ContinuationPrefs(enabled, target_tool) == [enabled |-> enabled, target |-> target_tool]
NotificationPrefs(enabled, message, sound) ==
    [enabled |-> enabled, message |-> message, sound |-> sound]
TerminalPrefs(defaults, per_tool) == [defaults |-> defaults, per_tool |-> per_tool]

\* UserSettings.to_dict
settings_to_dict(settings) ==
    [k \in {"continuations", "prompts", "notifications", "terminals", "kill_old_sessions"} |->
        CASE k = "continuations" ->
                [tool \in DOMAIN settings.continuations |->
                    [j \in {"enabled", "target"} |->
                        IF j = "enabled"
                        THEN settings.continuations[tool].enabled
                        ELSE settings.continuations[tool].target]]
          [] k = "prompts" -> settings.prompts
          [] k = "notifications" ->
                [j \in {"enabled", "message", "sound"} |->
                    CASE j = "enabled" -> settings.notifications.enabled
                      [] j = "message" -> settings.notifications.message
                      [] OTHER -> settings.notifications.sound]
          [] k = "terminals" ->
                [j \in {"defaults", "per_tool"} |->
                    IF j = "defaults" THEN settings.terminals.defaults
                    ELSE settings.terminals.per_tool]
          [] OTHER -> settings.kill_old_sessions]

\* an update that keeps the values it already has
UpdateKeepingOld(d, other) ==
    [k \in DOMAIN d \cup DOMAIN other |-> IF k \in DOMAIN d THEN d[k] ELSE other[k]]

\* dict.update(other)
Update(d, other) ==
    [k \in DOMAIN d \cup DOMAIN other |-> IF k \in DOMAIN other THEN other[k] ELSE d[k]]

\* `value or default` on dicts: the empty dict is false
OrDefault(value, default) == IF DOMAIN value = {} THEN default ELSE value

\* UserSettings.from_dict: [raised, settings].  bool() is applied to
\* booleans, which it returns as they are.
settings_from_dict(payload) ==
    LET raw_cont == GetKey(payload, "continuations", EmptyDict)
        given == [tool \in DOMAIN raw_cont |->
                    ContinuationPrefs(GetKey(raw_cont[tool], "enabled", FALSE),
                                      GetKey(raw_cont[tool], "target", "claude"))]
        notif_payload == GetKey(payload, "notifications", EmptyDict)
        term_payload == GetKey(payload, "terminals", EmptyDict)
        settings ==
            [ continuations |->
                [tool \in DOMAIN given \cup CONTINUATION_TOOLS |->
                    IF tool \in DOMAIN given THEN given[tool]
                    ELSE ContinuationPrefs(FALSE, "claude")],
              prompts |-> Update(DefaultPrompts, GetKey(payload, "prompts", EmptyDict)),
              notifications |->
                NotificationPrefs(GetKey(notif_payload, "enabled", TRUE),
                                  GetKey(notif_payload, "message", "Continuing on {target}"),
                                  GetKey(notif_payload, "sound", "success")),
              terminals |->
                TerminalPrefs(OrDefault(GetKey(term_payload, "defaults", EmptyDict),
                                        DefaultTerminalDefaults),
                              OrDefault(GetKey(term_payload, "per_tool", EmptyDict), EmptyDict)),
              kill_old_sessions |-> GetKey(payload, "kill_old_sessions", TRUE) ]
    IN  [raised |-> validate(settings), settings |-> settings]

\* save_user_settings that validates after the backup
save_user_settings_backup_first(fs, settings, fail, clock) ==
    LET b == backup_config(fs, clock)
    IN  IF validate(settings) # "" THEN Done(b.fs, validate(settings), FALSE, b.backup)
        ELSE IF fail = "open" THEN Done(b.fs, "OSError", TRUE, b.backup)
        ELSE IF fail = "write" THEN Done([b.fs EXCEPT !.target = BadSyntax], "RuntimeError", TRUE, b.backup)
        ELSE Done([b.fs EXCEPT !.target = Doc(settings_to_dict(settings))], "", TRUE, b.backup)

\* save_user_settings: the backup, then the target opened for writing and
\* written in place
save_user_settings(fs, settings, fail, clock) ==
    LET b == backup_config(fs, clock)
    IN  IF validate(settings) # "" THEN Done(fs, validate(settings), FALSE, NoBackup)
        ELSE IF fail = "open" THEN Done(b.fs, "OSError", TRUE, b.backup)
        ELSE IF fail = "write" THEN Done([b.fs EXCEPT !.target = BadSyntax], "RuntimeError", TRUE, b.backup)
        ELSE Done([b.fs EXCEPT !.target = Doc(settings_to_dict(settings))], "", TRUE, b.backup)

----------------------------------------------------------------------------
(* The configuration specification *)

ClaudeFiles ==
    { Missing, BadSyntax,
      Doc([k \in {"theme"} |-> "dark"]),
      Doc([k \in {"hooks"} |-> [e \in {"Stop"} |-> <<Claude4ever, UserHook>>]]),
      Doc([k \in {"hooks", "theme"} |->
            IF k = "theme" THEN "dark"
            ELSE [e \in {"Stop", "PreToolUse"} |-> IF e = "Stop" THEN <<VoclGo>> ELSE <<UserHook>>]]) }

CodexFiles ==
    { Missing, BadSyntax,
      Doc([k \in {"model"} |-> "o3"]),
      Doc([k \in {"notify", "model"} |-> IF k = "model" THEN "o3" ELSE <<Codex4ever, UserHook>>]),
      Doc([k \in {"notify"} |-> <<VocoGo>>]) }

\* UserSettings values: the defaults, the defaults with killing switched off
\* and a routing to a tool that does not exist
DefaultSettings ==
    [ continuations |->
        [tool \in CONTINUATION_TOOLS |->
            ContinuationPrefs(tool # "gemini", IF tool = "claude" THEN "codex" ELSE "claude")],
      prompts |-> DefaultPrompts,
      notifications |-> NotificationPrefs(TRUE, "Continuing on {target}", "success"),
      terminals |-> TerminalPrefs(DefaultTerminalDefaults, EmptyDict),
      kill_old_sessions |-> TRUE ]

SettingsValues ==
    { DefaultSettings,
      [DefaultSettings EXCEPT !.kill_old_sessions = FALSE],
      [DefaultSettings EXCEPT !.continuations["codex"].target = "cursor"] }

SettingsFiles ==
    {Missing, BadSyntax, Doc(settings_to_dict(DefaultSettings))}

FilesOf(fam) ==
    CASE fam = "claude" -> ClaudeFiles
      [] fam = "codex" -> CodexFiles
      [] OTHER -> SettingsFiles

SessionIdle ==
    /\ stateFile = Missing
    /\ procs = [p \in Pids |-> NoProc]
    /\ calls = <<>>
    /\ ret = NoRet

ConfigInit ==
    /\ family \in Families
    /\ target \in FilesOf(family)
    /\ tmp \in {Missing, BadSyntax}
    /\ backups = [c \in Clock |-> Missing]
    /\ cres = NoCres
    /\ now = 0
    /\ SessionIdle
    /\ ToolIdle

Fs == [target |-> target, tmp |-> tmp, backups |-> backups]

\* the operation named op ran from the current state, did d and ended at
\* time t
Wrote(op, fail, d, t) ==
    /\ target' = d.fs.target
    /\ tmp' = d.fs.tmp
    /\ backups' = d.fs.backups
    /\ cres' = [ op |-> op, raised |-> d.raised, wrote |-> d.wrote, backup |-> d.backup,
                 fail |-> fail, pre |-> target, backups0 |-> backups ]
    /\ now' = t

Did(op, fail, d, t) ==
    /\ Wrote(op, fail, d, t)
    /\ UNCHANGED <<family, sessionVars, toolVars>>

EnableHook ==
    \E fail \in Failures :
        \/ family = "claude"
           /\ \E d \in {enable_claude_hook(Fs, fail, now)} : Did("enable", fail, d, now)
        \/ family = "codex"
           /\ \E d \in {enable_codex_hook(Fs, fail, now)} : Did("enable", fail, d, now)

\* disable_*_hook, which restore_defaults calls too
DisableHook ==
    \E fail \in Failures :
        \/ family = "claude"
           /\ \E d \in {disable_claude_hook(Fs, fail, now)} : Did("disable", fail, d, now)
        \/ family = "codex"
           /\ \E d \in {disable_codex_hook(Fs, fail, now)} : Did("disable", fail, d, now)

\* the clock may advance between the backup migrate_from_legacy makes and
\* the write that follows it
MigrateFromLegacy ==
    \E fail \in Failures, clock2 \in {now, now + 1} \cap Clock :
        /\ \/ family = "claude"
              /\ \E d \in {migrate_claude(Fs, fail, now, clock2)} : Did("migrate", fail, d, clock2)
           \/ family = "codex"
              /\ \E d \in {migrate_codex(Fs, fail, now, clock2)} : Did("migrate", fail, d, clock2)

SetupConfigs ==
    \E fail \in Failures :
        /\ family \in {"claude", "codex"}
        /\ \E d \in {setup_configs(Fs, fail, now)} : Did("setup", fail, d, now)

BackupLegacyConfigs ==
    /\ family \in {"claude", "codex"}
    /\ \E d \in {backup_legacy_configs(Fs, now)} : Did("backup_legacy", "none", d, now)

SaveUserSettings ==
    \E settings \in SettingsValues, fail \in {"none", "open", "write"} :
        /\ family = "settings"
        /\ \E d \in {save_user_settings(Fs, settings, fail, now)} : Did("save", fail, d, now)

\* the wall clock advances
Tick ==
    /\ now < MaxClock
    /\ now' = now + 1
    /\ cres' = NoCres
    /\ UNCHANGED <<family, target, tmp, backups, sessionVars, toolVars>>

ConfigNext ==
    \/ EnableHook
    \/ DisableHook
    \/ MigrateFromLegacy
    \/ SetupConfigs
    \/ BackupLegacyConfigs
    \/ SaveUserSettings
    \/ Tick

ConfigSpec == ConfigInit /\ [][ConfigNext]_vars

----------------------------------------------------------------------------
(* The continuation hooks *)

\* load_user_settings: [fs, raised, settings]; a missing file is created
\* with the defaults
load_user_settings(fs, fail, clock) ==
    IF ~fs.target.exists
    THEN LET d == save_user_settings(fs, DefaultSettings, fail, clock)
         IN  [fs |-> d.fs, raised |-> d.raised, settings |-> DefaultSettings]
    ELSE IF ~fs.target.syntax
    THEN [fs |-> fs, raised |-> "TOMLDecodeError", settings |-> DefaultSettings]
    ELSE LET r == settings_from_dict(fs.target.doc)
         IN  [fs |-> fs, raised |-> r.raised, settings |-> r.settings]

\* load_settings: the defaults whenever load_user_settings raises
load_settings(fs, fail, clock) ==
    LET l == load_user_settings(fs, fail, clock)
    IN  [fs |-> l.fs, settings |-> IF l.raised # "" THEN DefaultSettings ELSE l.settings]

\* the settings load_settings returns for a settings file, whatever the
\* write of a missing file does
settings_in_force(file) == load_settings([target |-> file], "none", 0).settings

continuation_enabled(settings, tool) ==
    tool \in DOMAIN settings.continuations /\ settings.continuations[tool].enabled

resolve_target(settings, tool) ==
    LET target_tool == IF tool \in DOMAIN settings.continuations
                       THEN settings.continuations[tool].target ELSE "claude"
    IN  IF target_tool \in CONTINUATION_TOOLS THEN target_tool ELSE "claude"

DEFAULT_PROMPT_FALLBACK == "Continue working on the current task"

\* str.strip, str.startswith and "\n".join on lines
RECURSIVE lstrip(_)
lstrip(line) ==
    IF line # <<>> /\ Head(line) = " " THEN lstrip(Tail(line)) ELSE line

RECURSIVE rstrip(_)
rstrip(line) ==
    IF line # <<>> /\ line[Len(line)] = " "
    THEN rstrip(SubSeq(line, 1, Len(line) - 1)) ELSE line

strip(line) == rstrip(lstrip(line))

startswith(line, prefix) ==
    Len(line) >= Len(prefix) /\ SubSeq(line, 1, Len(prefix)) = prefix

\* the string of a sequence of characters
RECURSIVE Str(_)
Str(chars) == IF chars = <<>> THEN "" ELSE Head(chars) \o Str(Tail(chars))

RECURSIVE join(_)
join(lines) ==
    IF lines = <<>> THEN ""
    ELSE IF Len(lines) = 1 THEN Str(lines[1])
    ELSE Str(Head(lines)) \o "\n" \o join(Tail(lines))

\* seq[:n]
FirstOf(seq, n) == SubSeq(seq, 1, IF Len(seq) < n THEN Len(seq) ELSE n)

\* "- [ ]"
UncheckedMark == <<"-", " ", "[", " ", "]">>

\* the [:5] of _collect_todo_lines and _collect_plan_hint
HintLines == 5

\* every open item of TODO.md, however many there are
collect_todo_lines_unbounded(project) ==
    IF ~project.todo.exists \/ ~project.todo.readable THEN <<>>
    ELSE SelectSeq([i \in 1..Len(project.todo.lines) |-> strip(project.todo.lines[i])],
                   LAMBDA line : startswith(line, UncheckedMark))

\* _collect_todo_lines: the lines, not yet joined
collect_todo_lines(project) ==
    IF ~project.todo.exists \/ ~project.todo.readable THEN <<>>
    ELSE LET lines == [i \in 1..Len(project.todo.lines) |-> strip(project.todo.lines[i])]
         IN  FirstOf(SelectSeq(lines, LAMBDA line : startswith(line, UncheckedMark)),
                     HintLines)

\* _collect_plan_hint
collect_plan_hint(project) ==
    IF ~project.plan.exists \/ ~project.plan.readable THEN ""
    ELSE LET kept == SelectSeq(project.plan.lines, LAMBDA line : strip(line) # <<>>)
             snippet == FirstOf([i \in 1..Len(kept) |-> strip(kept[i])], HintLines)
         IN  join(snippet)

\* The templates the model gives to str.format beside the packaged ones.
TemplateBoth == "For {target} after {source}: {todo} Plan: {plan}"
TemplateUnknown == "Do {task}"
TemplateUnbalanced == "Fix {todo"
TemplateEscaped == "{{todo}} is {todo}"

Text(s) == [kind |-> "text", s |-> s]
Field(name) == [kind |-> "field", s |-> name]
Unbalanced == [kind |-> "error", s |-> "ValueError"]

\* How str.format reads a template: literal text ("{{" gives "{"),
\* replacement fields, or a brace without its partner.  The packaged
\* prompts of claude and codex end in {todo}, that of gemini in {plan}; a
\* text without braces is one literal.
FormatPieces(template) ==
    CASE template = TemplateBoth ->
            << Text("For "), Field("target"), Text(" after "), Field("source"),
               Text(": "), Field("todo"), Text(" Plan: "), Field("plan") >>
      [] template = TemplateUnknown -> <<Text("Do "), Field("task")>>
      [] template = TemplateUnbalanced -> <<Text("Fix "), Unbalanced>>
      [] template = TemplateEscaped -> <<Text("{todo} is "), Field("todo")>>
      [] template \in {DefaultPrompts["claude"], DefaultPrompts["codex"]} ->
            <<Text(template \o ":\n"), Field("todo")>>
      [] template = DefaultPrompts["gemini"] -> <<Text(template \o ":\n"), Field("plan")>>
      [] OTHER -> <<Text(template)>>

RECURSIVE Filled(_, _)
Filled(pieces, values) ==
    IF pieces = <<>> THEN ""
    ELSE (IF Head(pieces).kind = "text" THEN Head(pieces).s ELSE values[Head(pieces).s])
            \o Filled(Tail(pieces), values)

\* template.format(**values): ValueError for a brace without its partner,
\* KeyError for a field that values does not hold
format(template, values) ==
    LET pieces == FormatPieces(template)
    IN  IF \E i \in 1..Len(pieces) :
                \/ pieces[i].kind = "error"
                \/ pieces[i].kind = "field" /\ pieces[i].s \notin DOMAIN values
        THEN [raised |-> TRUE, text |-> ""]
        ELSE [raised |-> FALSE, text |-> Filled(pieces, values)]

\* build_prompt: the template of the source tool, with the TODO and PLAN
\* texts of the project filled in
build_prompt(settings, source_tool, target_tool, project) ==
    LET own == GetKey(settings.prompts, source_tool, "")
        packaged == GetKey(DefaultPrompts, source_tool, "")
        template == IF own # "" THEN own
                    ELSE IF packaged # "" THEN packaged ELSE DEFAULT_PROMPT_FALLBACK
        todo_lines == collect_todo_lines(project)
        todo_text == IF todo_lines # <<>> THEN join(todo_lines) ELSE "No open TODO items."
        plan_hint == collect_plan_hint(project)
        plan_text == IF plan_hint # "" THEN plan_hint ELSE "No plan summary available."
        values == [k \in {"todo", "plan", "target", "source"} |->
                    CASE k = "todo" -> todo_text
                      [] k = "plan" -> plan_text
                      [] k = "target" -> target_tool
                      [] OTHER -> source_tool]
        formatted == format(template, values)
    IN  IF formatted.raised THEN template ELSE formatted.text

\* resolve_executable: shutil.which finds the command on the PATH or not
resolve_executable(command_name, found) ==
    IF found THEN "/usr/bin/" \o command_name ELSE command_name

\* Path(command[0]).name
Basename(path) ==
    CASE path \in {"claude", "/usr/bin/claude"} -> "claude"
      [] path \in {"codex", "/usr/bin/codex"} -> "codex"
      [] path \in {"gemini", "/usr/bin/gemini"} -> "gemini"
      [] OTHER -> path

build_target_command(target_tool, project_dir, prompt, found) ==
    CASE target_tool = "codex" ->
            << resolve_executable("codex", found), "--cd=" \o project_dir, "-m", "gpt5",
               "--dangerously-bypass-approvals-and-sandbox", "--sandbox", "danger-full-access" >>
                \o (IF prompt # "" THEN <<prompt>> ELSE <<>>)
      [] target_tool = "gemini" ->
            <<resolve_executable("gemini", found), "-c", "-y">>
                \o (IF prompt # "" THEN <<prompt>> ELSE <<>>)
      [] OTHER ->
            <<resolve_executable("claude", found), "--continue", "--dangerously-skip-permissions">>
                \o (IF prompt # "" THEN <<"--prompt", prompt>> ELSE <<>>)

SourceKey == "VOMGR_SOURCE_TOOL"

\* prepare_env_updates; the notification message is formatted with the target
prepare_env_updates(settings, source_tool, target_tool, prompt, project_dir) ==
    [ k \in { TargetKey, SourceKey, "VOMGR_PROMPT", "VOMGR_PROJECT_DIR",
              "VOMGR_NOTIFICATION_ENABLED", "VOMGR_NOTIFICATION_MESSAGE",
              "VOMGR_NOTIFICATION_SOUND", KillKey } |->
        CASE k = TargetKey -> target_tool
          [] k = SourceKey -> source_tool
          [] k = "VOMGR_PROMPT" -> prompt
          [] k = "VOMGR_PROJECT_DIR" -> project_dir
          [] k = "VOMGR_NOTIFICATION_ENABLED" -> IF settings.notifications.enabled THEN "1" ELSE "0"
          [] k = "VOMGR_NOTIFICATION_MESSAGE" ->
                IF settings.notifications.message = "Continuing on {target}"
                THEN "Continuing on " \o target_tool ELSE settings.notifications.message
          [] k = "VOMGR_NOTIFICATION_SOUND" -> settings.notifications.sound
          [] OTHER -> IF settings.kill_old_sessions THEN "1" ELSE "0" ]

\* write_config: the payload the helper reads back
write_config(command, project_dir, env_updates) ==
    [command |-> command, cwd |-> project_dir, env |-> env_updates]

\* What a script file under the home directory holds: nothing (""), the
\* script HookManager writes ("simplified"), or a rendering of the package's
\* template in hooks_tpl ("template").
HookScript(source) ==
    CASE source = "claude" -> "vocl-go.py"
      [] source = "codex" -> "voco-go.py"
      [] OTHER -> "voge-go.py"

\* HELPER_NAME and CONFIG_FILENAME of the rendered templates
HelperName(source) == IF source = "claude" THEN "vocl-new.py" ELSE "voco-new.py"
ConfigFilename(source) == IF source = "claude" THEN "vocl-new.json" ELSE "voco-new.json"

\* HookManager.install_hooks: the three hook scripts are written
install_hooks(h) ==
    [h EXCEPT !.scripts =
        [f \in DOMAIN h.scripts |-> IF f \in HookScripts THEN "simplified" ELSE h.scripts[f]]]

\* HookManager.uninstall_hooks: the three hook scripts are removed
uninstall_hooks(h) ==
    [h EXCEPT !.scripts =
        [f \in DOMAIN h.scripts |-> IF f \in HookScripts THEN "" ELSE h.scripts[f]]]

\* what a firing of a hook did: [fs, home, launched, spawned, status, removed]
Fired(fs, h, launched, spawned, status, removed) ==
    [ fs |-> fs, home |-> h, launched |-> launched, spawned |-> spawned,
      status |-> status, removed |-> removed ]

\* main() of the hook scripts HookManager writes: the Claude hook runs
\* claude, the Codex hook runs codex, each until it ends; the Gemini hook
\* only prints a notice.  run tells whether subprocess.run found the command.
simplified_main(fs, h, source, run) ==
    IF source = "gemini" THEN Fired(fs, h, "", FALSE, 0, "")
    ELSE IF run THEN Fired(fs, h, source, FALSE, 0, "")
    ELSE Fired(fs, h, "", FALSE, 1, "")

\* _remove_stale_config: unlink may raise, which is ignored
remove_stale_config(h, source, unlink) ==
    IF h.configs[ConfigFilename(source)].exists /\ unlink
    THEN [h EXCEPT !.configs[ConfigFilename(source)] = NoLauncher]
    ELSE h

\* main() of the rendered vocl_go / voco_go templates.  spawn tells whether
\* spawn_helper started the helper script (a terminal command that is not
\* installed makes Popen raise).
template_main(fs, h, source, project_dir, project, fail, unlink, spawn, found, clock) ==
    LET l == load_settings(fs, fail, clock)
        settings == l.settings
        target_tool == resolve_target(settings, source)
        prompt == build_prompt(settings, source, target_tool, project)
        command == build_target_command(target_tool, project_dir, prompt, found)
        env_updates == prepare_env_updates(settings, source, target_tool, prompt, project_dir)
        written == [h EXCEPT !.configs[ConfigFilename(source)] =
                        [exists |-> TRUE,
                         config |-> write_config(command, project_dir, env_updates)]]
    IN  IF source = "gemini" THEN Fired(fs, h, "", FALSE, 0, "")
        ELSE IF ~continuation_enabled(settings, source)
        THEN Fired(l.fs, remove_stale_config(h, source, unlink), "", FALSE, 0,
                   IF h.configs[ConfigFilename(source)].exists
                   THEN (IF unlink THEN "removed" ELSE "kept") ELSE "")
        ELSE IF h.scripts[HelperName(source)] = "" THEN Fired(l.fs, written, "", FALSE, 1, "")
        ELSE IF ~spawn THEN Fired(l.fs, written, "", FALSE, 1, "")
        ELSE Fired(l.fs, [written EXCEPT !.helpers = @ \cup {source}], "", TRUE, 0, "")

\* load_config of the rendered vocl_new / voco_new templates: the config, or
\* an empty dict when the file is missing
load_config(h, source) ==
    IF h.configs[ConfigFilename(source)].exists
    THEN h.configs[ConfigFilename(source)].config ELSE NoConfig

----------------------------------------------------------------------------
(* The command line *)

\* the tool names given on the command line
ToolArgs == {"claude", "codex", "gemini", "CLAUDE", "Codex", "Gemini", "cursor", "claude ", ""}

\* the tool a lower-cased name spells, "" when it spells none
ToolOf(chars) ==
    IF \E t \in CONTINUATION_TOOLS : Chars(t) = chars
    THEN CHOOSE t \in CONTINUATION_TOOLS : Chars(t) = chars
    ELSE ""

\* _validate_tool that does not lower-case the name
validate_tool_exact(tool) ==
    IF tool \notin CONTINUATION_TOOLS
    THEN [raised |-> "FireError", tool |-> ""]
    ELSE [raised |-> "", tool |-> tool]

\* _validate_tool: [raised, tool]
validate_tool(tool) ==
    LET normalized == ToolOf(lower(Chars(tool)))
    IN  IF normalized \notin CONTINUATION_TOOLS
        THEN [raised |-> "FireError", tool |-> ""]
        ELSE [raised |-> "", tool |-> normalized]

\* what a command did: the files, what it raised, the collaborators it
\* called in order, and the text it returned
Ran(d, called, result) ==
    [ fs |-> d.fs, raised |-> d.raised, wrote |-> d.wrote, backup |-> d.backup,
      called |-> called, result |-> result ]

\* the record of a command given tool and arg that did d
Cli(cmd, tool, arg, d) ==
    [ cmd |-> cmd, tool |-> tool, arg |-> arg, flags |-> {}, raised |-> d.raised,
      called |-> d.called, result |-> d.result ]

\* a command that stops on a FireError of _validate_tool
Refused(fs) == Ran(Done(fs, "FireError", FALSE, NoBackup), <<>>, "")

\* load, change and save, as the settings commands do: l is what
\* load_user_settings(fs, fail, clock) did and changed the settings to save.
\* A failing write is the first one attempted: that of the defaults when
\* the file is missing, else the save.
Edit(fs, l, changed, fail, clock, result) ==
    LET d == save_user_settings(l.fs, changed, IF fs.target.exists THEN fail ELSE "none", clock)
    IN  IF l.raised # ""
        THEN Ran(Done(l.fs, l.raised, ~fs.target.exists, NoBackup), <<"load">>, "")
        ELSE Ran(d, <<"load", "save">>, IF d.raised = "" THEN result ELSE "")

\* ContinuationCLI.set
continuation_set(fs, source, target_tool, fail, clock) ==
    LET s == validate_tool(source)
        t == validate_tool(target_tool)
        l == load_user_settings(fs, fail, clock)
        changed == [l.settings EXCEPT !.continuations[s.tool] = ContinuationPrefs(TRUE, t.tool)]
    IN  IF s.raised # "" \/ t.raised # "" THEN Refused(fs)
        ELSE Edit(fs, l, changed, fail, clock,
                  s.tool \o " continuation now targets " \o t.tool)

\* ContinuationCLI.disable that also forgets the target
continuation_disable_reset(fs, source, fail, clock) ==
    LET s == validate_tool(source)
        l == load_user_settings(fs, fail, clock)
        changed == [l.settings EXCEPT !.continuations[s.tool] = ContinuationPrefs(FALSE, "claude")]
    IN  IF s.raised # "" THEN Refused(fs)
        ELSE Edit(fs, l, changed, fail, clock, s.tool \o " continuation disabled")

\* ContinuationCLI.disable
continuation_disable(fs, source, fail, clock) ==
    LET s == validate_tool(source)
        l == load_user_settings(fs, fail, clock)
        changed == [l.settings EXCEPT !.continuations[s.tool].enabled = FALSE]
    IN  IF s.raised # "" THEN Refused(fs)
        ELSE Edit(fs, l, changed, fail, clock, s.tool \o " continuation disabled")

\* PromptCLI.set
prompt_set(fs, tool, template, fail, clock) ==
    LET t == validate_tool(tool)
        l == load_user_settings(fs, fail, clock)
        changed == [l.settings EXCEPT !.prompts = SetKey(@, t.tool, template)]
    IN  IF t.raised # "" THEN Refused(fs)
        ELSE Edit(fs, l, changed, fail, clock, "Prompt for " \o t.tool \o " updated")

\* PromptCLI.show
prompt_show(fs, tool, fail, clock) ==
    LET t == validate_tool(tool)
        l == load_user_settings(fs, fail, clock)
    IN  IF t.raised # "" THEN Refused(fs)
        ELSE Ran(Done(l.fs, l.raised, ~fs.target.exists, NoBackup), <<"load">>,
                 IF l.raised # "" THEN "" ELSE GetKey(l.settings.prompts, t.tool, "Continue"))

\* VomgrCLI.enable on the configuration file of family fam: the file of
\* another tool is not the one followed
vomgr_enable(fs, fam, tool, fail, clock) ==
    LET t == validate_tool(tool)
        untouched == Done(fs, "", FALSE, NoBackup)
        d == CASE fam = "claude" /\ t.tool = "claude" -> enable_claude_hook(fs, fail, clock)
               [] fam = "codex" /\ t.tool = "codex" -> enable_codex_hook(fs, fail, clock)
               [] OTHER -> untouched
    IN  IF t.raised # "" THEN Refused(fs)
        ELSE IF t.tool = "gemini"
        THEN Ran(untouched, <<"ConfigManager">>, "Gemini continuation not yet implemented")
        ELSE Ran(d, <<"ConfigManager", "enable_" \o t.tool \o "_hook">>,
                 IF d.raised = "" THEN t.tool \o " continuation enabled" ELSE "")

\* VomgrCLI.disable
vomgr_disable(fs, fam, tool, fail, clock) ==
    LET t == validate_tool(tool)
        untouched == Done(fs, "", FALSE, NoBackup)
        d == CASE fam = "claude" /\ t.tool = "claude" -> disable_claude_hook(fs, fail, clock)
               [] fam = "codex" /\ t.tool = "codex" -> disable_codex_hook(fs, fail, clock)
               [] OTHER -> untouched
    IN  IF t.raised # "" THEN Refused(fs)
        ELSE IF t.tool = "gemini"
        THEN Ran(untouched, <<"ConfigManager">>, "Gemini continuation not yet implemented")
        ELSE Ran(d, <<"ConfigManager", "disable_" \o t.tool \o "_hook">>,
                 IF d.raised = "" THEN t.tool \o " continuation disabled" ELSE "")

\* VomgrCLI.run: the launcher looks the command up, exits with status 1
\* when it is not installed, and else runs the tool until it ends
vomgr_run(fs, tool, found) ==
    LET t == validate_tool(tool)
        untouched == Done(fs, "", FALSE, NoBackup)
    IN  IF t.raised # "" THEN Refused(fs)
        ELSE IF ~found
        THEN Ran(Done(fs, "SystemExit", FALSE, NoBackup),
                 <<"LauncherManager", "launch_" \o t.tool>>, "")
        ELSE Ran(untouched, <<"LauncherManager", "launch_" \o t.tool, "subprocess.run">>,
                 "Launched " \o t.tool)

\* what VomgrCLI.install did: Ran, and the home directory
Installed(d, h, called, result) ==
    [ fs |-> d.fs, raised |-> d.raised, wrote |-> d.wrote, backup |-> d.backup,
      called |-> called, result |-> result, home |-> h ]

\* VomgrCLI.install with the configuration step before the hooks and the
\* legacy backup last
vomgr_install_backup_last(fs, h, fam, backup_legacy, migrate, fail, clock, clock2) ==
    LET third == IF ~migrate THEN setup_configs(fs, fail, clock)
                 ELSE IF fam = "claude" THEN migrate_claude(fs, fail, clock, clock2)
                 ELSE migrate_codex(fs, fail, clock, clock2)
        b == IF backup_legacy THEN backup_legacy_configs(third.fs, clock2)
             ELSE Done(third.fs, "", FALSE, NoBackup)
    IN  IF third.raised # ""
        THEN Installed(third, h, <<IF migrate THEN "migrate_from_legacy" ELSE "setup_configs">>, "")
        ELSE Installed(Done(b.fs, "", third.wrote, b.backup), install_hooks(h),
                       <<IF migrate THEN "migrate_from_legacy" ELSE "setup_configs", "install_hooks">>
                           \o (IF backup_legacy THEN <<"backup_legacy_configs">> ELSE <<>>),
                       "Installation complete")

\* VomgrCLI.install on the configuration file of family fam; clock2 is the
\* time of the configuration step
vomgr_install(fs, h, fam, backup_legacy, migrate, fail, clock, clock2) ==
    LET b == IF backup_legacy THEN backup_legacy_configs(fs, clock)
             ELSE Done(fs, "", FALSE, NoBackup)
        first == IF backup_legacy THEN <<"backup_legacy_configs">> ELSE <<>>
        hooked == install_hooks(h)
        third == IF ~migrate THEN setup_configs(b.fs, fail, clock2)
                 ELSE IF fam = "claude" THEN migrate_claude(b.fs, fail, clock2, clock2)
                 ELSE migrate_codex(b.fs, fail, clock2, clock2)
        called == first \o <<"install_hooks">>
                    \o <<IF migrate THEN "migrate_from_legacy" ELSE "setup_configs">>
    IN  Installed([third EXCEPT !.backup = IF backup_legacy THEN b.backup ELSE @], hooked, called,
                  IF third.raised = "" THEN "Installation complete" ELSE "")

----------------------------------------------------------------------------
(* The hook specification *)

\* a home directory in which the package's templates were rendered: the
\* three hooks and the two helpers
RenderedHome ==
    [NoHome EXCEPT !.scripts = [f \in HookScripts \cup HelperScripts |-> "template"]]

\* settings files the hooks may find: none, one that does not parse, the
\* defaults, Claude routed to gemini, and one with Claude switched off whose
\* Codex entry names a tool that does not exist
HookSettingsFiles ==
    { Missing, BadSyntax,
      Doc(settings_to_dict(DefaultSettings)),
      Doc(settings_to_dict([DefaultSettings EXCEPT !.continuations["claude"].target = "gemini",
                                                   !.kill_old_sessions = FALSE])),
      Doc(settings_to_dict([DefaultSettings EXCEPT !.continuations["claude"].enabled = FALSE,
                                                   !.continuations["codex"].target = "cursor"])) }

HookInit ==
    /\ family = "settings"
    /\ target \in HookSettingsFiles
    /\ tmp = Missing
    /\ backups = [c \in Clock |-> Missing]
    /\ cres = NoCres
    /\ now = 0
    /\ SessionIdle
    /\ home \in {NoHome, RenderedHome}
    /\ hres = NoHres
    /\ cli = NoCli
    /\ sres = NoSres
    /\ tags = <<>>
    /\ bump = NoBump
    /\ MoreIdle

\* the records of the last session, configuration and command-line
\* operations are cleared by an operation of another kind
Forget(kinds) ==
    /\ "session" \in kinds => calls' = <<>> /\ ret' = NoRet
    /\ "config" \in kinds => cres' = NoCres
    /\ "hook" \in kinds => hres' = NoHres
    /\ "cli" \in kinds => cli' = NoCli
    /\ "settings" \in kinds => sres' = NoSres

\* HookManager.install_hooks
InstallHooks ==
    /\ home' = install_hooks(home)
    /\ hres' = [NoHres EXCEPT !.op = "install"]
    /\ Forget({"session", "config", "cli"})
    /\ UNCHANGED <<stateFile, procs, now, family, target, tmp, backups, sres, tags, bump, moreVars>>

\* HookManager.uninstall_hooks
UninstallHooks ==
    /\ home' = uninstall_hooks(home)
    /\ hres' = [NoHres EXCEPT !.op = "uninstall"]
    /\ Forget({"session", "config", "cli"})
    /\ UNCHANGED <<stateFile, procs, now, family, target, tmp, backups, sres, tags, bump, moreVars>>

\* What the system answers one firing: subprocess.run finds the command
\* or not, unlink succeeds or raises, the helper's terminal starts or not,
\* shutil.which finds the target or not, and the settings file of a first
\* run can be created or not.  At most one of them goes wrong in a firing.
HookEnvs ==
    LET fine == [run |-> TRUE, unlink |-> TRUE, spawn |-> TRUE, found |-> TRUE, fail |-> "none"]
    IN  { fine, [fine EXCEPT !.run = FALSE], [fine EXCEPT !.unlink = FALSE],
          [fine EXCEPT !.spawn = FALSE], [fine EXCEPT !.found = FALSE],
          [fine EXCEPT !.fail = "open"] }

\* A tool's session ends and the tool runs its hook script, whichever kind
\* of script is installed.
HookFires ==
    \E source \in CONTINUATION_TOOLS, env \in HookEnvs :
        /\ home.scripts[HookScript(source)] # ""
        /\ \E d \in { IF home.scripts[HookScript(source)] = "simplified"
                      THEN simplified_main(Fs, home, source, env.run)
                      ELSE template_main(Fs, home, source, "/proj", NoProject,
                                         env.fail, env.unlink, env.spawn, env.found, now) } :
              /\ target' = d.fs.target
              /\ tmp' = d.fs.tmp
              /\ backups' = d.fs.backups
              /\ home' = d.home
              /\ hres' = [ op |-> "fire", source |-> source, launched |-> d.launched,
                           spawned |-> d.spawned, status |-> d.status, removed |-> d.removed ]
              /\ Forget({"session", "config", "cli"})
              /\ UNCHANGED <<stateFile, procs, now, family, sres, tags, bump, moreVars>>

\* A helper script that a hook spawned runs: main() of the rendered
\* vocl_new / voco_new templates, up to process.wait().  The old session's
\* process answers without a fault here; the faults are those of Spec.
HelperRuns ==
    \E source \in home.helpers :
        LET config == load_config(home, source)
            command == CommandOf(config)
        IN  \E popen \in (IF command = <<>> THEN {""} ELSE {Basename(command[1]), ""}) :
              LET starts == popen # ""
              IN  \E newpid \in IF starts THEN {p \in Pids : ~procs[p].exists} ELSE {0} :
                    LET old == read_session(stateFile)
                        after == IF starts THEN [procs EXCEPT ![newpid] = Proc(popen)] ELSE procs
                    IN  \E l \in {launch_from_config(stateFile, procs, config, popen, newpid,
                                                     NoOutcome, now)} :
                            /\ stateFile' = l.file
                            /\ procs' = l.procs
                            /\ calls' = l.calls
                            /\ ret' = [NoRet EXCEPT !.op = "launch", !.raised = l.swallowed,
                                                    !.started = l.started, !.config = config,
                                                    !.arg = SessionInfo("", newpid, "", ""),
                                                    !.victim0 = ProcAt(after, old.info.pid)]
                            /\ home' = [home EXCEPT !.helpers = @ \ {source}]
                            /\ hres' = [NoHres EXCEPT !.op = "helper", !.source = source,
                                                      !.launched = popen]
                            /\ Forget({"config", "cli"})
                            /\ UNCHANGED <<now, family, target, tmp, backups, sres, tags, bump, moreVars>>

\* vomgr continuation disable between two firings
ContinuationDisable ==
    \E source \in {"claude", "Codex"} :
        \E d \in {continuation_disable(Fs, source, "none", now)} :
            /\ Wrote("continuation disable", "none", d, now)
            /\ cli' = Cli("continuation disable", source, "", d)
            /\ Forget({"session", "hook"})
            /\ UNCHANGED <<stateFile, procs, family, home, sres, tags, bump, moreVars>>

HookNext ==
    \/ InstallHooks
    \/ UninstallHooks
    \/ HookFires
    \/ HelperRuns
    \/ ContinuationDisable

HookSpec == HookInit /\ [][HookNext]_vars

----------------------------------------------------------------------------
(* The settings specification *)

\* UserSettings objects handed to save_user_settings and from_dict: the
\* defaults, customised ones, one that routes Codex to a tool that does not
\* exist, and ones that hold less than the defaults (one continuation only,
\* no prompts, no terminal defaults)
CustomSettings ==
    [ continuations |->
        [tool \in CONTINUATION_TOOLS |-> ContinuationPrefs(tool = "gemini", "gemini")],
      prompts |-> SetKey(SetKey(DefaultPrompts, "claude", "keep going"), "cursor", "extra"),
      notifications |-> NotificationPrefs(FALSE, "done", "ping"),
      terminals |-> TerminalPrefs([p \in {"linux"} |-> "kitty"],
                                  [t \in {"codex"} |-> [p \in {"linux"} |-> "xterm"]]),
      kill_old_sessions |-> FALSE ]

SettingsInputs ==
    { DefaultSettings,
      CustomSettings,
      [DefaultSettings EXCEPT !.continuations["codex"].target = "cursor"],
      [DefaultSettings EXCEPT !.continuations = [tool \in {"claude"} |-> ContinuationPrefs(TRUE, "codex")]],
      [DefaultSettings EXCEPT !.prompts = EmptyDict],
      [CustomSettings EXCEPT !.terminals = TerminalPrefs(EmptyDict, EmptyDict)] }

\* contents of settings.toml that no save of this package wrote: an empty
\* file, and one that names only a continuation for Claude, without target
HandWrittenFiles ==
    { Doc(EmptyDict),
      Doc([k \in {"continuations"} |->
            [tool \in {"claude"} |-> [j \in {"enabled"} |-> TRUE]]]) }

SettingsInit ==
    /\ family = "settings"
    /\ target \in HookSettingsFiles \cup HandWrittenFiles
    /\ tmp = Missing
    /\ backups = [c \in Clock |-> Missing]
    /\ cres = NoCres
    /\ now = 0
    /\ SessionIdle
    /\ ToolIdle

\* save_user_settings(settings)
SaveSettings ==
    \E settings \in SettingsInputs, fail \in {"none", "open", "write"} :
        \E d \in {save_user_settings(Fs, settings, fail, now)} :
            /\ Wrote("save", fail, d, now)
            /\ sres' = [NoSres EXCEPT !.op = "save", !.given = settings, !.raised = d.raised,
                                      !.fresh = (d.raised = "")]
            /\ cli' = NoCli
            /\ UNCHANGED <<family, sessionVars, home, hres, tags, bump, moreVars>>

\* load_user_settings()
LoadSettings ==
    \E fail \in {"none", "open"} :
        \E l \in {load_user_settings(Fs, fail, now)} :
            /\ Wrote("load", fail, Done(l.fs, l.raised, ~target.exists, NoBackup), now)
            /\ sres' = [sres EXCEPT !.op = "load", !.raised = l.raised,
                                    !.settings = IF l.raised = "" THEN l.settings ELSE NoSettings]
            /\ cli' = NoCli
            /\ UNCHANGED <<family, sessionVars, home, hres, tags, bump, moreVars>>

\* UserSettings.from_dict(settings.to_dict())
FromDict ==
    \E settings \in SettingsInputs :
        \E r \in {settings_from_dict(settings_to_dict(settings))} :
            /\ sres' = [NoSres EXCEPT !.op = "from_dict", !.given = settings, !.raised = r.raised,
                                      !.settings = IF r.raised = "" THEN r.settings ELSE NoSettings]
            /\ cres' = NoCres
            /\ cli' = NoCli
            /\ UNCHANGED <<family, target, tmp, backups, now, sessionVars, home, hres, tags, bump, moreVars>>

\* the wall clock advances between two settings operations
SettingsTick ==
    /\ now < MaxClock
    /\ now' = now + 1
    /\ UNCHANGED <<family, target, tmp, backups, cres, sessionVars, toolVars>>

SettingsNext ==
    \/ SaveSettings
    \/ LoadSettings
    \/ FromDict
    \/ SettingsTick

SettingsSpec == SettingsInit /\ [][SettingsNext]_vars

----------------------------------------------------------------------------
(* The command-line specification *)

\* the settings files the commands start from
CliSettingsFiles ==
    { Missing, BadSyntax,
      Doc(settings_to_dict(DefaultSettings)),
      Doc(settings_to_dict([DefaultSettings EXCEPT !.continuations["gemini"].target = "cursor"])) }

CliInit ==
    /\ family \in Families
    /\ target \in (IF family = "settings" THEN CliSettingsFiles ELSE FilesOf(family))
    /\ tmp = Missing
    /\ backups = [c \in Clock |-> Missing]
    /\ cres = NoCres
    /\ now = 0
    /\ SessionIdle
    /\ ToolIdle

\* a command of vomgr named cmd ran and did d at time t
Commanded(cmd, tool, arg, fail, d, t) ==
    /\ Wrote(cmd, fail, d, t)
    /\ cli' = Cli(cmd, tool, arg, d)
    /\ UNCHANGED <<family, sessionVars, home, hres, sres, tags, bump, moreVars>>

\* the tool of this name has its configuration file followed here, or has none
Followed(tool) ==
    LET t == validate_tool(tool)
    IN  t.raised # "" \/ t.tool = "gemini" \/ t.tool = family

\* vomgr enable TOOL
VomgrEnable ==
    \E tool \in ToolArgs, fail \in {"none", "validate"} :
        /\ Followed(tool)
        /\ \E d \in {vomgr_enable(Fs, family, tool, fail, now)} :
              Commanded("enable", tool, "", fail, d, now)

\* vomgr disable TOOL
VomgrDisable ==
    \E tool \in ToolArgs, fail \in {"none", "validate"} :
        /\ Followed(tool)
        /\ \E d \in {vomgr_disable(Fs, family, tool, fail, now)} :
              Commanded("disable", tool, "", fail, d, now)

\* vomgr run TOOL
VomgrRun ==
    \E tool \in ToolArgs, found \in BOOLEAN :
        \E d \in {vomgr_run(Fs, tool, found)} : Commanded("run", tool, "", "none", d, now)

\* vomgr continuation set SOURCE TARGET
CliContinuationSet ==
    \E source \in {"claude", "Codex", "cursor", ""}, target_tool \in {"Gemini", "cursor"},
       fail \in {"none", "open"} :
        /\ family = "settings"
        /\ \E d \in {continuation_set(Fs, source, target_tool, fail, now)} :
              Commanded("continuation set", source, target_tool, fail, d, now)

\* vomgr continuation disable SOURCE
CliContinuationDisable ==
    \E source \in {"claude", "Codex", "claude ", "cursor"}, fail \in {"none", "open"} :
        /\ family = "settings"
        /\ \E d \in {continuation_disable(Fs, source, fail, now)} :
              Commanded("continuation disable", source, "", fail, d, now)

\* vomgr prompt set TOOL TEMPLATE
PromptSet ==
    \E tool \in {"Gemini", "cursor", ""}, fail \in {"none", "open"} :
        /\ family = "settings"
        /\ \E d \in {prompt_set(Fs, tool, "keep going", fail, now)} :
              Commanded("prompt set", tool, "keep going", fail, d, now)

\* vomgr prompt show TOOL
PromptShow ==
    \E tool \in ToolArgs, fail \in {"none", "open"} :
        /\ family = "settings"
        /\ \E d \in {prompt_show(Fs, tool, fail, now)} :
              Commanded("prompt show", tool, "", fail, d, now)

\* vomgr install [--backup_legacy] [--migrate]
VomgrInstall ==
    \E backup_legacy \in BOOLEAN, migrate \in BOOLEAN, fail \in {"none", "validate"},
       clock2 \in {now, now + 1} \cap Clock :
        /\ family \in {"claude", "codex"}
        /\ \E d \in {vomgr_install(Fs, home, family, backup_legacy, migrate, fail, now, clock2)} :
              /\ Wrote("install", fail, d, clock2)
              /\ home' = d.home
              /\ cli' = [Cli("install", "", "", d) EXCEPT
                            !.flags = (IF backup_legacy THEN {"backup_legacy"} ELSE {})
                                        \cup (IF migrate THEN {"migrate"} ELSE {})]
              /\ UNCHANGED <<family, sessionVars, hres, sres, tags, bump, moreVars>>

CliNext ==
    \/ VomgrEnable
    \/ VomgrDisable
    \/ VomgrRun
    \/ CliContinuationSet
    \/ CliContinuationDisable
    \/ PromptSet
    \/ PromptShow
    \/ VomgrInstall

CliSpec == CliInit /\ [][CliNext]_vars

----------------------------------------------------------------------------
(* The version bump tool *)

\* the most tags the repository holds
MaxTags == 3

\* A tag that `git tag -l "v*.*.*"` lists is the letter v and at least three
\* texts separated by dots; the model holds a tag as the sequence of these
\* texts.  The tags of the repository:
TagPool ==
    { <<"1", "0", "0">>, <<"1", "2", "0">>, <<"1", "10", "0">>, <<"2", "0", "0">>,
      <<"2", "0", "0", "1">>, <<"1", "0", "x">> }

\* the integers whose decimal text a tag of the model can hold
VersionNumbers == 0..(10 + MaxTags)

\* int(text): -1 stands for ValueError
IntOf(text) ==
    IF \E n \in VersionNumbers : ToString(n) = text
    THEN CHOOSE n \in VersionNumbers : ToString(n) = text
    ELSE -1

\* version_key: tuple(map(int, tag[1:].split("."))), (0, 0, 0) on ValueError
version_key(tag) ==
    IF \A i \in 1..Len(tag) : IntOf(tag[i]) # -1
    THEN [i \in 1..Len(tag) |-> IntOf(tag[i])]
    ELSE <<0, 0, 0>>

\* a < b on tuples of integers, as Python orders them
TupleLess(a, b) ==
    \/ \E i \in 1..Len(a) :
          /\ i <= Len(b)
          /\ \A j \in 1..(i - 1) : a[j] = b[j]
          /\ a[i] < b[i]
    \/ /\ Len(a) < Len(b)
       /\ \A j \in 1..Len(a) : a[j] = b[j]

\* max(tags, key=version_key): the first tag no other tag's key exceeds
MaxByKey(listing) ==
    LET best == {i \in 1..Len(listing) :
                    \A j \in 1..Len(listing) :
                        ~TupleLess(version_key(listing[i]), version_key(listing[j]))}
    IN  listing[CHOOSE i \in best : \A j \in best : i <= j]

\* the tag v1.0.0
FirstVersion == <<"1", "0", "0">>

\* get_next_version: listing is what git tag -l printed, list_ok whether it
\* succeeded.  Unpacking a key that has not three numbers raises the
\* ValueError that the except clause turns into v1.0.0.
get_next_version(listing, list_ok) ==
    IF ~list_ok THEN FirstVersion
    ELSE IF listing = <<>> THEN FirstVersion
    ELSE LET key == version_key(MaxByKey(listing))
         IN  IF Len(key) # 3 THEN FirstVersion
             ELSE <<ToString(key[1]), ToString(key[2]), ToString(key[3] + 1)>>

\* check_clean_working_tree
check_clean_working_tree(status) == status = "clean"

\* what a run of bump_version did: [tags, ran, status, version]
Bumped(ts, ran, status, version) ==
    [tags |-> ts, ran |-> ran, status |-> status, version |-> version]

\* bump_version that creates the tag before it pulls
bump_version_tag_first(ts, env) ==
    LET version == get_next_version(ts, env.list)
        created == env.tag /\ \A i \in 1..Len(ts) : ts[i] # version
        tagged == IF created THEN Append(ts, version) ELSE ts
    IN  IF ~env.repo THEN Bumped(ts, <<"is_git_repo">>, 1, <<>>)
        ELSE IF ~check_clean_working_tree(env.status)
        THEN Bumped(ts, <<"is_git_repo", "git status">>, 1, <<>>)
        ELSE IF ~created
        THEN Bumped(ts, <<"is_git_repo", "git status", "git tag -l", "git tag">>, 1, version)
        ELSE IF ~env.pull
        THEN Bumped(tagged, <<"is_git_repo", "git status", "git tag -l", "git tag", "git pull">>,
                    1, version)
        ELSE Bumped(tagged \o env.pulled,
                    <<"is_git_repo", "git status", "git tag -l", "git tag", "git pull",
                      "git push", "git push --tags">>, 0, version)

\* bump_version: git tag fails when the tag exists already
bump_version(ts, env) ==
    LET checks == <<"is_git_repo", "git status", "git pull">>
        listing == ts \o env.pulled
        version == get_next_version(listing, env.list)
        created == env.tag /\ \A i \in 1..Len(listing) : listing[i] # version
        tagged == Append(listing, version)
    IN  IF ~env.repo THEN Bumped(ts, <<"is_git_repo">>, 1, <<>>)
        ELSE IF ~check_clean_working_tree(env.status)
        THEN Bumped(ts, <<"is_git_repo", "git status">>, 1, <<>>)
        ELSE IF ~env.pull THEN Bumped(ts, checks, 1, <<>>)
        ELSE IF ~created
        THEN Bumped(listing, checks \o <<"git tag -l", "git tag">>, 1, version)
        ELSE IF ~env.push
        THEN Bumped(tagged, checks \o <<"git tag -l", "git tag", "git push">>, 1, version)
        ELSE Bumped(tagged, checks \o <<"git tag -l", "git tag", "git push", "git push --tags">>,
                    IF env.push_tags THEN 0 ELSE 1, version)

\* the answers of the system to one run: at most one thing goes wrong, or
\* the pull fetches a tag
BumpEnvs(ts) ==
    { FineBump, [FineBump EXCEPT !.repo = FALSE], [FineBump EXCEPT !.status = "dirty"],
      [FineBump EXCEPT !.status = "error"], [FineBump EXCEPT !.pull = FALSE],
      [FineBump EXCEPT !.list = FALSE], [FineBump EXCEPT !.tag = FALSE],
      [FineBump EXCEPT !.push = FALSE], [FineBump EXCEPT !.push_tags = FALSE] }
        \cup { [FineBump EXCEPT !.pulled = <<t>>] :
                t \in {u \in TagPool : \A i \in 1..Len(ts) : ts[i] # u} }

\* the tags of a repository: up to two different tags of the pool, in the
\* order git lists them
BumpInit ==
    /\ SessionIdle
    /\ ConfigIdle
    /\ now = 0
    /\ home = NoHome
    /\ hres = NoHres
    /\ cli = NoCli
    /\ sres = NoSres
    /\ tags \in {<<>>} \cup {<<t>> : t \in TagPool}
                  \cup {pair \in TagPool \X TagPool : pair[1] # pair[2]}
    /\ bump = NoBump
    /\ MoreIdle

\* get_next_version()
GetNextVersion ==
    \E list_ok \in BOOLEAN :
        /\ bump' = [NoBump EXCEPT !.op = "next", !.ran = <<"git tag -l">>,
                                  !.version = get_next_version(tags, list_ok),
                                  !.env = [FineBump EXCEPT !.list = list_ok],
                                  !.tags0 = tags]
        /\ UNCHANGED <<sessionVars, now, configVars, home, hres, cli, sres, tags, moreVars>>

\* bump_version(), while the repository holds fewer than MaxTags tags
BumpVersion ==
    \E env \in BumpEnvs(tags) :
        /\ Len(tags) + Len(env.pulled) < MaxTags
        /\ \E b \in {bump_version(tags, env)} :
              /\ tags' = b.tags
              /\ bump' = [ op |-> "bump", ran |-> b.ran, status |-> b.status,
                           version |-> b.version, env |-> env, tags0 |-> tags ]
        /\ UNCHANGED <<sessionVars, now, configVars, home, hres, cli, sres, moreVars>>

BumpNext ==
    \/ GetNextVersion
    \/ BumpVersion

BumpSpec == BumpInit /\ [][BumpNext]_vars

----------------------------------------------------------------------------
(* vomgr update *)

\* NPM_PACKAGES, in the order of the dict, and BREW_PACKAGES
NPM_PACKAGES == <<"claude", "gemini", "llxprt", "qwen", "terragon", "justevery">>
BREW_PACKAGES == <<"codex">>

\* the commands that install or upgrade something
NpmInstall(tool) == "npm install -g " \o tool
BrewUpgrade(package) == "brew upgrade " \o package
UvInstall == "uv pip install --upgrade vexy-overnight"
PipInstall == "python -m pip install --upgrade vexy-overnight"

\* what the system answers one vomgr update: the update log opens for
\* appending or open() raises OSError, `which uv` finds uv or not, and the
\* upgrade of the package returns 0 or not
FineUpdate == [log |-> TRUE, uv |-> TRUE, upgraded |-> TRUE]

\* what a method of UpdateManager did: [ran, logged, raised]
Updated(ran, logged, raised) == [ran |-> ran, logged |-> logged, raised |-> raised]

\* check_versions: the commands and the request it runs
check_versions ==
    << "claude --version", "codex --version", "brew info --json=v2 codex",
       "gemini --version", "GET pypi.org/pypi/vexy-overnight/json" >>

\* _log_update: [logged, raised]
log_update(message, env) ==
    IF env.log THEN [logged |-> <<message>>, raised |-> ""]
    ELSE [logged |-> <<>>, raised |-> "OSError"]

\* the npm loop and the brew loop of update_cli_tools
InstallCommands(dry_run, skip) ==
    LET npm == SelectSeq(NPM_PACKAGES, LAMBDA tool : tool \notin skip)
        brew == SelectSeq(BREW_PACKAGES, LAMBDA package : package \notin skip)
    IN  IF dry_run THEN <<>>
        ELSE [i \in 1..Len(npm) |-> NpmInstall(npm[i])]
                \o (IF brew = <<>> THEN <<>> ELSE <<"brew update", BrewUpgrade(brew[1])>>)

\* update_cli_tools
update_cli_tools(dry_run, skip, env) ==
    LET before == log_update("Starting CLI tools update", env)
        after == log_update("CLI tools update complete", env)
    IN  IF before.raised # "" THEN Updated(check_versions, <<>>, before.raised)
        ELSE IF dry_run
        THEN Updated(check_versions \o InstallCommands(dry_run, skip), before.logged, "")
        ELSE Updated(check_versions \o InstallCommands(dry_run, skip) \o check_versions,
                     before.logged \o after.logged, after.raised)

\* update_self; an exception of the log is caught with those of the commands
update_self(dry_run, env) ==
    LET logged == log_update("vexy-overnight package updated successfully", env).logged
    IN  IF dry_run THEN Updated(<<>>, <<>>, "")
        ELSE Updated(<<"which uv", IF env.uv THEN UvInstall ELSE PipInstall>>,
                     IF env.upgraded THEN logged ELSE <<>>, "")

UpdateFlags == {"check", "cli", "self_update", "all", "dry_run"}

\* VomgrCLI.update: [ran, logged, raised, result], result the messages joined
\* by the return
vomgr_update(flags, skip, env) ==
    LET dry_run == "dry_run" \in flags
        nothing == Updated(<<>>, <<>>, "")
        c == IF "check" \in flags THEN Updated(check_versions, <<>>, "") ELSE nothing
        t == IF "all" \in flags \/ "cli" \in flags
             THEN update_cli_tools(dry_run, skip, env) ELSE nothing
        s == IF "all" \in flags \/ "self_update" \in flags
             THEN update_self(dry_run, env) ELSE nothing
        versions == IF "check" \in flags THEN <<"versions">> ELSE <<>>
        tools == IF "all" \in flags \/ "cli" \in flags
                 THEN <<IF dry_run THEN "CLI tools checked (dry run)" ELSE "CLI tools updated">>
                 ELSE <<>>
        package == IF "all" \in flags \/ "self_update" \in flags
                   THEN <<IF dry_run THEN "vomgr update simulated" ELSE "vomgr package updated">>
                   ELSE <<>>
        messages == versions \o tools \o package
    IN  IF t.raised # ""
        THEN [ran |-> c.ran \o t.ran, logged |-> t.logged, raised |-> t.raised, result |-> <<>>]
        ELSE [ran |-> c.ran \o t.ran \o s.ran, logged |-> t.logged \o s.logged, raised |-> "",
              result |-> IF messages = <<>> THEN <<"No update action performed">> ELSE messages]

----------------------------------------------------------------------------
(* The update specification *)

\* the update log holds at most MaxLog lines
MaxLog == 3

SkipArgs == {{}, {"claude"}, {"codex", "qwen"}}

UpdateEnvs ==
    { FineUpdate, [FineUpdate EXCEPT !.log = FALSE], [FineUpdate EXCEPT !.uv = FALSE],
      [FineUpdate EXCEPT !.upgraded = FALSE] }

UpdateInit ==
    /\ SessionIdle
    /\ ConfigIdle
    /\ now \in Clock
    /\ ToolIdle

\* a line of the update log: the time and the message
LogLines(logged, clock) == [i \in 1..Len(logged) |-> [at |-> IsoFormat(clock), message |-> logged[i]]]

\* vomgr update [--check] [--cli] [--self_update] [--all] [--dry_run] [--skip=...]
VomgrUpdate ==
    \E flags \in SUBSET UpdateFlags, skip \in SkipArgs, env \in UpdateEnvs :
        \E u \in {vomgr_update(flags, skip, env)} :
            /\ Len(updateLog) + Len(u.logged) <= MaxLog
            /\ updateLog' = updateLog \o LogLines(u.logged, now)
            /\ upd' = [ op |-> "update", flags |-> flags, skip |-> skip, ran |-> u.ran,
                        logged |-> u.logged, raised |-> u.raised, result |-> u.result ]
            /\ UNCHANGED <<sessionVars, now, configVars, home, hres, cli, sres, tags, bump, rot, inv,
                           wr, tree, sync, built>>

UpdateNext == VomgrUpdate

UpdateSpec == UpdateInit /\ [][UpdateNext]_vars

----------------------------------------------------------------------------
(* Overlapping hand-offs *)

\* Two helpers run launch_from_config at the same time on one state file.
\* Each runs Popen, then rotate_session statement by statement: read_session,
\* kill_old_session, and write_session, whose open(state_file, "w")
\* truncates the file and whose json.dump writes it when the file is closed.
\* Nothing orders the statements of one helper with those of the other.
RaceTool == "codex"
RaceName == "Codex"
RaceCwd == "/proj"

\* open(state_file, "w"): the file exists and is empty, which is no JSON
Truncated == NotJson

\* a write that leaves a record another helper has written in place
Dumped_exclusive(old, file, overlaid) == IF overlaid THEN {old} ELSE {file}

\* What the file holds once a helper has written its text at offset 0 of
\* the file that holds old: the text, or, when another helper wrote a longer
\* text since this one opened the file, the text followed by the end of the
\* other, which is no JSON.
Dumped(old, file, overlaid) == IF overlaid THEN {file, NotJson} ELSE {file}

\* the state file is missing, holds JSON that is no object, or records an
\* earlier session, whose process still runs or not
RaceInit ==
    /\ stateFile \in { Missing, JsonFile(JList),
                       DumpSession(SessionInfo("claude", 1, IsoFormat(0), RaceCwd)) }
    /\ procs \in {[p \in Pids |-> NoProc], [p \in Pids |-> IF p = 1 THEN Proc("Codex") ELSE NoProc]}
    /\ calls = <<>>
    /\ ret = NoRet
    /\ now \in Clock
    /\ ConfigIdle
    /\ home = NoHome
    /\ hres = NoHres
    /\ cli = NoCli
    /\ sres = NoSres
    /\ tags = <<>>
    /\ bump = NoBump
    /\ updateLog = <<>>
    /\ upd = NoUpd
    /\ rot = [h \in Helpers |-> Waiting]
    /\ inv = NoInv
    /\ wr = NoWr
    /\ tree = NoTree
    /\ sync = NoSync
    /\ built = NoBuilt

\* the variables no hand-off changes
RaceFrame ==
    <<ret, now, configVars, home, hres, cli, sres, tags, bump, updateLog, upd, inv, wr,
      tree, sync, built>>

\* subprocess.Popen(command, ...): the new process gets a pid no process holds
RacePopen(h) ==
    /\ rot[h].pc = "Popen"
    /\ \E newpid \in {p \in Pids : ~procs[p].exists} :
          /\ procs' = [procs EXCEPT ![newpid] = Proc(RaceName)]
          /\ calls' = Append(calls, Call("Popen", newpid))
          /\ rot' = [rot EXCEPT ![h].pc = "read", ![h].pid = newpid]
    /\ UNCHANGED <<stateFile, RaceFrame>>

\* old_session = self.read_session(); an exception ends rotate_session
RaceRead(h) ==
    /\ rot[h].pc = "read"
    /\ LET old == read_session(stateFile)
       IN  rot' = [rot EXCEPT ![h].old = old,
                              ![h].pc = IF old.raised # "" THEN "done"
                                        ELSE IF old.found THEN "kill" ELSE "open"]
    /\ UNCHANGED <<stateFile, procs, calls, RaceFrame>>

\* self.kill_old_session(old_session), psutil answering as usual
RaceKill(h) ==
    /\ rot[h].pc = "kill"
    /\ \E k \in {kill_old_session(procs, rot[h].old.info, NoOutcome)} :
          /\ procs' = k.procs
          /\ calls' = calls \o k.calls
    /\ rot' = [rot EXCEPT ![h].pc = "open"]
    /\ UNCHANGED <<stateFile, RaceFrame>>

\* write_session: open(self.state_file, "w")
RaceOpen(h) ==
    /\ rot[h].pc = "open"
    /\ stateFile' = Truncated
    /\ rot' = [g \in Helpers |->
                IF g = h THEN [rot[g] EXCEPT !.pc = "dump", !.overlaid = FALSE]
                ELSE [rot[g] EXCEPT !.overlaid = FALSE]]
    /\ UNCHANGED <<procs, calls, RaceFrame>>

\* write_session: json.dump(...) and the close of the file
RaceDump(h) ==
    /\ rot[h].pc = "dump"
    /\ stateFile' \in Dumped(stateFile, write_session(RaceTool, rot[h].pid, RaceCwd, now).file,
                              rot[h].overlaid)
    /\ calls' = Append(calls, Call("write", rot[h].pid))
    /\ rot' = [g \in Helpers |->
                IF g = h THEN [rot[g] EXCEPT !.pc = "done"]
                ELSE IF rot[g].pc = "dump" THEN [rot[g] EXCEPT !.overlaid = TRUE]
                ELSE rot[g]]
    /\ UNCHANGED <<procs, RaceFrame>>

RaceNext ==
    \E h \in Helpers :
        \/ RacePopen(h)
        \/ RaceRead(h)
        \/ RaceKill(h)
        \/ RaceOpen(h)
        \/ RaceDump(h)

RaceSpec == RaceInit /\ [][RaceNext]_vars

----------------------------------------------------------------------------
(* Overlapping hook invocations *)

\* Two sessions of Claude end at about the same time, each in its project,
\* and each runs the rendered vocl-go.py: main() up to write_config, whose
\* write_text opens the launcher config (which truncates it) and then writes
\* it, spawn_helper, and in the helper load_config and launch_from_config.
\* Both invocations use the one file vocl-new.json next to the scripts.
OverlapSource == "claude"

Project(i) == IF i = "first" THEN "/projA" ELSE "/projB"

\* the launcher config file once invocation i has written it
Written(i) ==
    template_main([target |-> target, tmp |-> tmp, backups |-> backups], RenderedHome,
                  OverlapSource, Project(i), NoProject, "none", TRUE, TRUE, TRUE,
                  0).home.configs[ConfigFilename(OverlapSource)]

\* a launcher config file that holds no JSON: empty, or the text of one
\* invocation followed by the end of a longer one
Unparsable == [exists |-> TRUE, config |-> NoConfig]

\* a write that leaves in place what another invocation has written
write_text_exclusive(file, text, overlaid) == IF overlaid THEN {file} ELSE {text}

\* the second half of write_text: the text at offset 0 of the file
write_text(file, text, overlaid) == IF overlaid THEN {text, Unparsable} ELSE {text}

OverlapInit ==
    /\ family = "settings"
    /\ target = Doc(settings_to_dict(DefaultSettings))
    /\ tmp = Missing
    /\ backups = [c \in Clock |-> Missing]
    /\ cres = NoCres
    /\ now \in Clock
    /\ stateFile \in {Missing, DumpSession(SessionInfo("claude", 1, IsoFormat(0), "/projA"))}
    /\ procs = [p \in Pids |-> NoProc]
    /\ calls = <<>>
    /\ ret = NoRet
    /\ home \in {RenderedHome,
                 [RenderedHome EXCEPT !.configs[ConfigFilename(OverlapSource)] = Written("second")]}
    /\ hres = NoHres
    /\ cli = NoCli
    /\ sres = NoSres
    /\ tags = <<>>
    /\ bump = NoBump
    /\ updateLog = <<>>
    /\ upd = NoUpd
    /\ rot = NoRot
    /\ inv = [NoInv EXCEPT !.at = [i \in Invocations |-> Fresh]]
    /\ wr = NoWr
    /\ tree = NoTree
    /\ sync = NoSync
    /\ built = NoBuilt

\* the variables no step of a hook changes
OverlapFrame ==
    <<now, configVars, hres, cli, sres, tags, bump, updateLog, upd, rot, wr,
      tree, sync, built>>

\* write_config: config_path.write_text(...) opens the file for writing
HookOpens(i) ==
    /\ inv.at[i].pc = "open"
    /\ home' = [home EXCEPT !.configs[ConfigFilename(OverlapSource)] = Unparsable]
    /\ inv' = [inv EXCEPT !.at = [j \in Invocations |->
                    IF j = i THEN [inv.at[j] EXCEPT !.pc = "write", !.overlaid = FALSE]
                    ELSE [inv.at[j] EXCEPT !.overlaid = FALSE]]]
    /\ UNCHANGED <<sessionVars, OverlapFrame>>

\* write_config: write_text writes the payload and closes the file
HookWrites(i) ==
    /\ inv.at[i].pc = "write"
    /\ \E file \in write_text(home.configs[ConfigFilename(OverlapSource)], Written(i),
                           inv.at[i].overlaid) :
          home' = [home EXCEPT !.configs[ConfigFilename(OverlapSource)] = file]
    /\ inv' = [inv EXCEPT !.order = Append(@, i),
                          !.at = [j \in Invocations |->
                    IF j = i THEN [inv.at[j] EXCEPT !.pc = "spawn"]
                    ELSE IF inv.at[j].pc = "write" THEN [inv.at[j] EXCEPT !.overlaid = TRUE]
                    ELSE inv.at[j]]]
    /\ UNCHANGED <<sessionVars, OverlapFrame>>

\* spawn_helper: the helper script starts in a terminal of its own
HookSpawns(i) ==
    /\ inv.at[i].pc = "spawn"
    /\ home.scripts[HelperName(OverlapSource)] # ""
    /\ inv' = [inv EXCEPT !.at[i].pc = "load"]
    /\ UNCHANGED <<sessionVars, home, OverlapFrame>>

\* the helper's load_config; main() returns when the config is empty
HelperLoads(i) ==
    /\ inv.at[i].pc = "load"
    /\ LET config == load_config(home, OverlapSource)
       IN  inv' = [inv EXCEPT !.at[i].config = config,
                              !.at[i].pc = IF config = NoConfig THEN "done" ELSE "launch"]
    /\ UNCHANGED <<sessionVars, home, OverlapFrame>>

\* the helper's launch_from_config, up to process.wait()
HelperLaunches(i) ==
    /\ inv.at[i].pc = "launch"
    /\ \E newpid \in {p \in Pids : ~procs[p].exists} :
          \E l \in {launch_from_config(stateFile, procs, inv.at[i].config,
                                       Basename(inv.at[i].config.command[1]), newpid,
                                       NoOutcome, now)} :
              /\ stateFile' = l.file
              /\ procs' = l.procs
              /\ calls' = l.calls
              /\ ret' = [NoRet EXCEPT !.op = "launch", !.raised = l.swallowed,
                                      !.started = l.started, !.config = inv.at[i].config,
                                      !.arg = SessionInfo("", newpid, "", "")]
    /\ inv' = [inv EXCEPT !.at[i].launched = inv.at[i].config, !.at[i].pc = "done"]
    /\ UNCHANGED <<home, OverlapFrame>>

OverlapNext ==
    \E i \in Invocations :
        \/ HookOpens(i)
        \/ HookWrites(i)
        \/ HookSpawns(i)
        \/ HelperLoads(i)
        \/ HelperLaunches(i)

OverlapSpec == OverlapInit /\ [][OverlapNext]_vars

----------------------------------------------------------------------------
(* A write beside another process *)

\* enable_claude_hook or enable_codex_hook runs _write_with_rollback
\* statement by statement: the backup and the removal of a stale temporary
\* file, write_func, validate_func, replace, and the except branch.  Another
\* process (an editor, the tool itself) may write the target once between
\* the backup and the failure or the replace.

\* what the other process leaves in the target
Elsewhere == Doc([k \in {"edited"} |-> "elsewhere"])

\* the data enable_*_hook hands to the write of the file it has loaded
Enabled(fam, file) ==
    IF fam = "claude"
    THEN SetKey(load(file).config, "hooks",
                SetKey(GetKey(load(file).config, "hooks", EmptyDict), "Stop", <<VoclGo>>))
    ELSE SetKey(load(file).config, "notify", <<VocoGo>>)

BesideInit ==
    /\ family \in {"claude", "codex"}
    /\ target \in FilesOf(family) \ {BadSyntax}
    /\ tmp \in {Missing, BadSyntax}
    /\ backups = [c \in Clock |-> Missing]
    /\ cres = NoCres
    /\ now \in Clock
    /\ SessionIdle
    /\ home = NoHome
    /\ hres = NoHres
    /\ cli = NoCli
    /\ sres = NoSres
    /\ tags = <<>>
    /\ bump = NoBump
    /\ updateLog = <<>>
    /\ upd = NoUpd
    /\ rot = NoRot
    /\ inv = NoInv
    /\ wr = [NoWr EXCEPT !.pc = "backup"]
    /\ tree = NoTree
    /\ sync = NoSync
    /\ built = NoBuilt

\* the variables no step of the write changes
BesideFrame ==
    <<sessionVars, now, family, cres, home, hres, cli, sres, tags, bump, updateLog, upd, rot, inv,
      tree, sync, built>>

\* backup = self.backup_config(target) and the unlink of a stale tmp_path
WriteBacksUp ==
    /\ wr.pc = "backup"
    /\ \E b \in {backup_config([target |-> target, tmp |-> tmp, backups |-> backups], now)} :
          /\ backups' = b.fs.backups
          /\ wr' = [wr EXCEPT !.pc = "write", !.backup = b.backup, !.pre = target]
    /\ tmp' = Missing
    /\ UNCHANGED <<target, BesideFrame>>

\* write_func(tmp_path): the open or the dump may raise
WriteWritesTmp ==
    /\ wr.pc = "write"
    /\ \E fail \in {"none", "open", "write"} :
          /\ tmp' = (CASE fail = "open" -> Missing
                       [] fail = "write" -> BadSyntax
                       [] OTHER -> Doc(Enabled(family, wr.pre)))
          /\ wr' = [wr EXCEPT !.pc = IF fail = "none" THEN "validate" ELSE "except"]
    /\ UNCHANGED <<target, backups, BesideFrame>>

\* validate_func(tmp_path)
WriteValidates ==
    /\ wr.pc = "validate"
    /\ \E fail \in {"none", "validate"} :
          wr' = [wr EXCEPT !.pc = IF fail = "none" THEN "replace" ELSE "except"]
    /\ UNCHANGED <<target, tmp, backups, BesideFrame>>

\* tmp_path.replace(target)
WriteReplaces ==
    /\ wr.pc = "replace"
    /\ \E fail \in {"none", "replace"} :
          IF fail = "none"
          THEN /\ target' = tmp
               /\ tmp' = Missing
               /\ wr' = [wr EXCEPT !.pc = "returned"]
          ELSE /\ wr' = [wr EXCEPT !.pc = "except"]
               /\ UNCHANGED <<target, tmp>>
    /\ UNCHANGED <<backups, BesideFrame>>

\* the except branch: the unlink of tmp_path, _restore_from_backup, raise
WriteRollsBack ==
    /\ wr.pc = "except"
    /\ \E fs \in {rollback([target |-> target, tmp |-> tmp, backups |-> backups], wr.backup)} :
          /\ target' = fs.target
          /\ tmp' = fs.tmp
          /\ backups' = fs.backups
    /\ wr' = [wr EXCEPT !.pc = "raised"]
    /\ UNCHANGED BesideFrame

\* another process modifies or creates the target while the write runs
OtherWrites ==
    /\ wr.pc \in {"write", "validate", "replace"}
    /\ ~wr.touched
    /\ target' = Elsewhere
    /\ wr' = [wr EXCEPT !.touched = TRUE]
    /\ UNCHANGED <<tmp, backups, BesideFrame>>

BesideNext ==
    \/ WriteBacksUp
    \/ WriteWritesTmp
    \/ WriteValidates
    \/ WriteReplaces
    \/ WriteRollsBack
    \/ OtherWrites

BesideSpec == BesideInit /\ [][BesideNext]_vars

----------------------------------------------------------------------------
(* The instruction files: vomgr rules --sync (RulesManager.sync_files) *)

\* the inode a path leads to, 0 when it leads to none: Path.exists and
\* Path.stat follow a symbolic link
Resolve(t, p) ==
    CASE t.paths[p].kind = "file" -> t.paths[p].ino
      [] t.paths[p].kind = "symlink" ->
            IF t.paths[t.paths[p].to].kind = "file"
            THEN t.paths[t.paths[p].to].ino ELSE 0
      [] OTHER -> 0

PathExists(t, p) == Resolve(t, p) # 0
ContentOf(t, p) == t.inodes[Resolve(t, p)].content
MtimeOf(t, p) == t.inodes[Resolve(t, p)].mtime

\* find_instruction_files, for one file name: the paths at which a file of
\* that name is listed, in the order of the search
find_instruction_files(t) ==
    SelectSeq([p \in Paths |-> p], LAMBDA p : t.paths[p].kind # "none")

\* _find_parent_file: of the paths that exist and are not empty, the first
\* of those modified last (list.sort is stable, also with reverse=True);
\* 0 stands for None
find_parent_file(t, file_paths) ==
    LET valid_files ==
            SelectSeq(file_paths,
                      LAMBDA p : PathExists(t, p) /\ ContentOf(t, p) # "")
    IN  IF valid_files = <<>> THEN 0
        ELSE valid_files[
                CHOOSE i \in 1..Len(valid_files) :
                    \A j \in 1..Len(valid_files) :
                        /\ MtimeOf(t, valid_files[j]) <= MtimeOf(t, valid_files[i])
                        /\ j < i => MtimeOf(t, valid_files[j]) < MtimeOf(t, valid_files[i])]

\* file_path.unlink(): raises when the system refuses it and when the path
\* holds nothing (FileNotFoundError)
UnlinkRaises(t, p, env) == p \in env.unlink \/ t.paths[p].kind = "none"
Unlinked(t, p) == [t EXCEPT !.paths[p] = NoPath]

\* os.link(parent_file, file_path)
LinkRaises(t, parent, p, env) == p \in env.link \/ ~PathExists(t, parent)
Linked(t, parent, p) == [t EXCEPT !.paths[p] = File(Resolve(t, parent))]

\* the except branch of the loop's body: unlink again, then symlink_to; a
\* failure of either is logged and the loop goes on
symlink_fallback(t, parent, p, env) ==
    IF UnlinkRaises(t, p, env) THEN t
    ELSE IF p \in env.symlink THEN Unlinked(t, p)
    ELSE [t EXCEPT !.paths[p] = Symlink(parent)]

\* the body of the loop for one path other than the parent
link_to_parent(t, parent, p, env) ==
    IF UnlinkRaises(t, p, env) THEN symlink_fallback(t, parent, p, env)
    ELSE IF LinkRaises(Unlinked(t, p), parent, p, env)
         THEN symlink_fallback(Unlinked(t, p), parent, p, env)
    ELSE Linked(Unlinked(t, p), parent, p)

RECURSIVE link_all(_, _, _, _)
link_all(t, parent, file_paths, env) ==
    IF file_paths = <<>> THEN t
    ELSE link_all(IF Head(file_paths) # parent
                  THEN link_to_parent(t, parent, Head(file_paths), env)
                  ELSE t,
                  parent, Tail(file_paths), env)

\* sync_files, for one file name
sync_files(t, env) ==
    LET file_paths == find_instruction_files(t)
        parent_file == find_parent_file(t, file_paths)
    IN  IF Len(file_paths) < 2 \/ parent_file = 0 THEN t
        ELSE link_all(t, parent_file, file_paths, env)

\* What the system may answer one sync: nothing refused; hard links refused
\* everywhere (the paths lie on different file systems, or the file system
\* has none) or at one path; symbolic links refused as well; the unlink of one
\* path refused.  A refusal lasts for the whole call.
SyncEnvs ==
    {FineSync, [FineSync EXCEPT !.link = Paths],
     [FineSync EXCEPT !.link = Paths, !.symlink = Paths]}
        \cup {[FineSync EXCEPT !.link = {p}] : p \in Paths}
        \cup {[FineSync EXCEPT !.unlink = {p}] : p \in Paths}

Contents == {"", "old rules", "new rules"}

\* Every path holds nothing or a regular file of its own.
Trees ==
    {t \in [ paths : [Paths -> {NoPath} \cup {File(p) : p \in Paths}],
             inodes : [Paths -> [content : Contents, mtime : Clock]] ] :
        \A p \in Paths :
            /\ t.paths[p] \in {NoPath, File(p)}
            /\ t.paths[p] = NoPath => t.inodes[p] = NoTree.inodes[p]}

RulesInit ==
    /\ SessionIdle /\ ConfigIdle /\ now \in Clock
    /\ home = NoHome /\ hres = NoHres /\ cli = NoCli /\ sres = NoSres
    /\ tags = <<>> /\ bump = NoBump
    /\ updateLog = <<>> /\ upd = NoUpd /\ rot = NoRot /\ inv = NoInv /\ wr = NoWr
    /\ tree \in Trees
    /\ sync = NoSync
    /\ built = NoBuilt

\* vomgr rules --sync
SyncFiles ==
    \E env \in SyncEnvs :
        /\ tree' = sync_files(tree, env)
        /\ sync' = [op |-> "sync_files",
                    discovered |-> find_instruction_files(tree),
                    parent |-> find_parent_file(tree, find_instruction_files(tree)),
                    env |-> env, pre |-> tree]
        /\ UNCHANGED <<sessionVars, now, configVars, home, hres, cli, sres,
                       tags, bump, updateLog, upd, rot, inv, wr, built>>

RulesNext == SyncFiles

RulesSpec == RulesInit /\ [][RulesNext]_vars

----------------------------------------------------------------------------
(* The prompt of a hand-off: build_prompt on the files of a project *)

\* The lines of the files: an open item, an indented open item, a checked
\* item, a heading and a line of blanks.
ItemOne == <<"-", " ", "[", " ", "]", " ", "a">>
ItemTwo == <<" ", "-", " ", "[", " ", "]", " ", "b", " ">>
ItemDone == <<"-", " ", "[", "x", "]", " ", "c">>
Blank == <<" ">>
LinePool == {ItemOne, ItemTwo, ItemDone, Blank}

MaxLines == 7

\* a file that is missing, one that cannot be read, and every file of at
\* most MaxLines lines
RECURSIVE FilesOfLength(_)
FilesOfLength(n) ==
    IF n = 0 THEN {<<>>}
    ELSE {Append(lines, line) : lines \in FilesOfLength(n - 1), line \in LinePool}

ProjectFiles ==
    {NoFile, [exists |-> TRUE, readable |-> FALSE, lines |-> <<>>]}
        \cup {TextFile(lines) : lines \in UNION {FilesOfLength(n) : n \in 0..MaxLines}}

\* a project with two short files, for the choice of the template
SmallProject ==
    [todo |-> TextFile(<<ItemDone, ItemTwo, ItemOne>>), plan |-> TextFile(<<Blank, ItemDone>>)]

\* the prompts of the user's settings: the packaged ones, none at all, and
\* the packaged ones with a template of the user's for claude
UserPrompts ==
    {DefaultPrompts, EmptyDict}
        \cup {SetKey(DefaultPrompts, "claude", template) :
                template \in {"", "keep going", TemplateBoth, TemplateUnknown,
                              TemplateUnbalanced, TemplateEscaped}}

\* Either every file with the template that names both texts, or every
\* template and source tool with the small project.
PromptInit ==
    /\ SessionIdle /\ ConfigIdle /\ now = 0
    /\ home = NoHome /\ hres = NoHres /\ cli = NoCli /\ sres = NoSres
    /\ tags = <<>> /\ bump = NoBump
    /\ updateLog = <<>> /\ upd = NoUpd /\ rot = NoRot /\ inv = NoInv /\ wr = NoWr
    /\ tree = NoTree /\ sync = NoSync
    /\ \/ \E file \in ProjectFiles, other \in {NoFile, TextFile(<<ItemTwo>>)} :
            built \in {[NoBuilt EXCEPT !.prompts = SetKey(DefaultPrompts, "claude", TemplateBoth),
                                       !.source = "claude", !.target = "codex",
                                       !.project = project] :
                        project \in {[todo |-> file, plan |-> other],
                                     [todo |-> other, plan |-> file]}}
       \/ \E prompts \in UserPrompts, source \in CONTINUATION_TOOLS \cup {"cursor"} :
            built = [NoBuilt EXCEPT !.prompts = prompts, !.source = source,
                                    !.target = "codex", !.project = SmallProject]

\* prompt = build_prompt(settings, SOURCE_TOOL, target_tool, project_dir, ...)
BuildPrompt ==
    /\ built.op = ""
    /\ built' = [built EXCEPT
                    !.op = "build_prompt",
                    !.prompt = build_prompt([DefaultSettings EXCEPT !.prompts = built.prompts],
                                            built.source, built.target, built.project)]
    /\ UNCHANGED <<sessionVars, now, configVars, home, hres, cli, sres, tags, bump,
                   updateLog, upd, rot, inv, wr, tree, sync>>

PromptNext == BuildPrompt

PromptSpec == PromptInit /\ [][PromptNext]_vars

----------------------------------------------------------------------------
(* Properties of the session state *)

\* the positions in the last operation's calls of the calls named c
Positions(c) == {i \in 1..Len(calls) : calls[i].c = c}

\* the names of the model that contain claude, codex or gemini once lower-cased
ManagedNames == {"Codex"}

\* the cwd a session records for a cwd argument
RecordedCwd(cwd) == IF cwd # "" THEN cwd ELSE Getcwd

\* the state file holds a session with this tool, pid and cwd
Records(tool, pid, cwd) ==
    LET r == read_session(stateFile)
    IN  r.raised = "" /\ r.found /\ r.info.tool = tool /\ r.info.pid = pid /\ r.info.cwd = cwd

\* the content of a file is a session record: an object with the four
\* fields whose pid reads as an integer
ValidRecord(file) ==
    /\ file.exists
    /\ file.json
    /\ file.v.t = "obj"
    /\ SessionKeys \subseteq DOMAIN file.v.f
    /\ \/ file.v.f["pid"].t = "int"
       \/ file.v.f["pid"].t = "str" /\ \E n \in Numerals : ToString(n) = file.v.f["pid"].s

\* C2: in a hand-off that terminates the previous session's process (a
\* process other than the one it starts), the terminate call comes before
\* the Popen that starts the new tool.
C2_TerminateBeforeStart ==
    (ret.op = "launch" /\ ret.started) =>
        \A i \in Positions("terminate"), j \in Positions("Popen") :
            calls[i].pid # calls[j].pid => i < j

\* C4: rotate_session with kill_old true calls terminate on the process of
\* the recorded session when that session is readable and its process is a
\* running managed tool, and always leaves the new session in the state file.
C4_RotateKillsAndRecords ==
    (ret.op = "rotate" /\ ret.kill_old) =>
        /\ (ret.victim0.exists /\ ret.victim0.name \in ManagedNames
                /\ ret.o.import = "ok" /\ ret.o.name = "ok")
              => Positions("terminate") # {}
        /\ Records(ret.arg.tool, ret.arg.pid, RecordedCwd(ret.arg.cwd))

\* C5: kill_old_session calls terminate or kill only on an existing process
\* with the recorded pid whose name is a managed tool's, returns True only
\* after terminate was called first, and returns False without any call when
\* psutil is missing, the pid does not exist or the name does not match.
C5_KillOnlyManaged ==
    ret.op = "kill" =>
        /\ \A i \in Positions("terminate") \cup Positions("kill") :
              /\ calls[i].pid = ret.arg.pid
              /\ ret.victim0.exists
              /\ ret.victim0.name \in ManagedNames
              /\ ret.o.import = "ok"
        /\ ret.result => (calls # <<>> /\ calls[1].c = "terminate")
        /\ (ret.o.import # "ok" \/ ~ret.victim0.exists \/ ret.victim0.name \notin ManagedNames)
              => (~ret.result /\ calls = <<>>)

C5_Witness ==
    /\ ret.op = "kill"
    /\ ret.result
    /\ ret.victim0.name = "Codex"
    /\ Positions("terminate") = {1}

\* C6: with killing switched off, rotate_session and the hand-off terminate
\* and kill nothing and still leave the new session in the state file.
C6_NoKillStillRecords ==
    /\ (ret.op = "rotate" /\ ~ret.kill_old) =>
          /\ Positions("terminate") \cup Positions("kill") = {}
          /\ Records(ret.arg.tool, ret.arg.pid, RecordedCwd(ret.arg.cwd))
    /\ (ret.op = "launch" /\ ret.started /\ EnvGet(ret.config.env, KillKey, "1") = "0") =>
          /\ Positions("terminate") \cup Positions("kill") = {}
          /\ Records(EnvGet(ret.config.env, TargetKey, "claude"), ret.arg.pid,
                     RecordedCwd(Strip(ret.config.cwd)))

\* the last operation was kill_old_session on a running managed tool whose
\* name psutil could read
KilledManaged ==
    /\ ret.op = "kill"
    /\ ret.o.import = "ok"
    /\ ret.o.name = "ok"
    /\ ret.victim0.exists
    /\ ret.victim0.name \in ManagedNames

C8_ReadInvalidIsNone ==
    (ret.op = "read" /\ ~ValidRecord(stateFile)) => (ret.raised = "" /\ ~ret.found)

\* the SessionInfo values of the model
SessionInfos ==
    [ tool : Tools \cup {""}, pid : 0..MaxPid, start_time : {IsoFormat(c) : c \in Clock},
      cwd : {"", "/proj", Getcwd} ]

\* C9: after write_session, read_session returns the SessionInfo that
\* write_session returned, and from_dict(to_dict(s)) is s for every s.
C9_WriteReadRoundTrip ==
    /\ ret.op = "write" =>
          read_session(stateFile) = [raised |-> "", found |-> TRUE, info |-> ret.info]
    /\ ret.op = "write" =>
          \A s \in SessionInfos : from_dict(to_dict(s)) = [raised |-> "", info |-> s]

C9_Witness ==
    /\ ret.op = "write"
    /\ ret.arg.cwd = ""
    /\ ret.info = SessionInfo("codex", MaxPid, IsoFormat(now), Getcwd)
    /\ read_session(stateFile).info = ret.info

\* C10: after launch_from_config has started the target process, the state
\* file records the config's target tool, the new process's pid and the
\* config's cwd.
C10_LaunchRecordsSession ==
    (ret.op = "launch" /\ ret.started) =>
        Records(EnvGet(ret.config.env, TargetKey, "claude"), ret.arg.pid,
                RecordedCwd(Strip(ret.config.cwd)))

----------------------------------------------------------------------------
(* Properties of the configuration writes *)

\* the operations of ConfigManager that write through _write_with_rollback
ManagerWrites == {"enable", "disable", "migrate", "setup"}

\* C1: a ConfigManager write to an existing file in which writing or
\* validating the temporary file raises propagates the exception, removes the
\* temporary file and leaves the target with the content it had.
C1_FailedWriteRestores ==
    ( /\ cres.op \in ManagerWrites
      /\ cres.wrote
      /\ cres.pre.exists
      /\ cres.fail \in {"open", "write", "validate"} ) =>
        /\ cres.raised # ""
        /\ ~tmp.exists
        /\ target = cres.pre

C1_Witness ==
    /\ cres.op = "enable"
    /\ cres.wrote
    /\ cres.pre.exists
    /\ cres.fail = "validate"
    /\ cres.raised = "ValueError"
    /\ target = cres.pre
    /\ ~tmp.exists

\* C3: when a write by ConfigManager or save_user_settings has completed, a
\* backup stamped with the time of the write holds the content the file had
\* before, if the file existed; if it did not, no backup was created.
C3_BackupBeforeOverwrite ==
    (cres.op \in ManagerWrites \cup {"save"} /\ cres.wrote /\ cres.raised = "") =>
        /\ cres.pre.exists =>
              (cres.backup \in Clock /\ cres.backup <= now /\ backups[cres.backup] = cres.pre)
        /\ ~cres.pre.exists => (cres.backup = NoBackup /\ backups = cres.backups0)

C3_Witness ==
    /\ cres.op = "save"
    /\ cres.wrote
    /\ cres.raised = ""
    /\ cres.pre.exists
    /\ target # cres.pre
    /\ backups[now] = cres.pre

----------------------------------------------------------------------------
(* Properties of the continuation hooks *)

\* the tools whose hooks hand work over to another tool
SourceTools == {"claude", "codex"}

\* C11: when a hook has fired for a source tool whose continuation the
\* settings in force switch off, it has launched no tool process, spawned
\* no helper and left no launcher config for that source tool.
C11_DisabledHookLaunchesNothing ==
    (hres.op = "fire" /\ ~continuation_enabled(settings_in_force(target), hres.source)) =>
        /\ hres.launched = ""
        /\ ~hres.spawned
        /\ hres.source \in SourceTools => ~home.configs[ConfigFilename(hres.source)].exists

\* C12: a hook fired for a source tool whose continuation is enabled hands
\* over to the tool resolve_target returns: a tool it runs itself is that
\* tool, the launcher config it writes names that tool and starts its
\* executable, and the helper starts the tool its launcher config names.
C12_HandOffLaunchesResolvedTarget ==
    /\ (hres.op = "fire" /\ hres.source \in SourceTools
            /\ continuation_enabled(settings_in_force(target), hres.source)) =>
          LET resolved == resolve_target(settings_in_force(target), hres.source)
              written == home.configs[ConfigFilename(hres.source)]
          IN  /\ hres.launched # "" => hres.launched = resolved
              /\ hres.status = 0 => hres.launched # "" \/ hres.spawned
              /\ hres.spawned =>
                    /\ written.exists
                    /\ written.config.env[TargetKey] = resolved
                    /\ Basename(written.config.command[1]) = resolved
    /\ (hres.op = "helper" /\ hres.launched # "") =>
          /\ hres.launched = ret.config.env[TargetKey]
          /\ hres.launched \in CONTINUATION_TOOLS

\* C13: after HookManager.install_hooks the three hook scripts and the two
\* helper scripts exist.
C13_InstallWritesFiveScripts ==
    hres.op = "install" =>
        \A f \in HookScripts \cup HelperScripts : home.scripts[f] # ""

----------------------------------------------------------------------------
(* Properties of the user settings *)

\* some continuation of the settings names a target that is no tool
BadTarget(settings) ==
    \E source \in DOMAIN settings.continuations :
        settings.continuations[source].target \notin CONTINUATION_TOOLS

\* some continuation of a parsed settings file names a target that is no tool
BadPayload(file) ==
    /\ file.exists
    /\ file.syntax
    /\ LET raw_cont == GetKey(file.doc, "continuations", EmptyDict)
       IN  \E tool \in DOMAIN raw_cont :
              GetKey(raw_cont[tool], "target", "claude") \notin CONTINUATION_TOOLS

\* C14: save_user_settings given settings with a continuation target that
\* is not claude, codex or gemini raises ValueError, leaves the settings
\* file as it was and creates no backup; UserSettings.from_dict, called
\* directly or by load_user_settings, raises ValueError on such a target.
C14_InvalidTargetRejected ==
    /\ (sres.op = "save" /\ BadTarget(sres.given)) =>
          /\ sres.raised = "ValueError"
          /\ target = cres.pre
          /\ backups = cres.backups0
          /\ cres.backup = NoBackup
    /\ (sres.op = "from_dict" /\ BadTarget(sres.given)) => sres.raised = "ValueError"
    /\ (sres.op = "load" /\ BadPayload(cres.pre)) =>
          /\ sres.raised = "ValueError"
          /\ target = cres.pre

\* a save of invalid settings over an existing settings file was refused
C14_Witness ==
    /\ sres.op = "save"
    /\ BadTarget(sres.given)
    /\ sres.raised = "ValueError"
    /\ cres.pre.exists
    /\ cres.pre.syntax
    /\ target = cres.pre

\* the five fields of two UserSettings objects are equal
SameSettings(a, b) ==
    /\ a.continuations = b.continuations
    /\ a.prompts = b.prompts
    /\ a.notifications = b.notifications
    /\ a.terminals = b.terminals
    /\ a.kill_old_sessions = b.kill_old_sessions

\* the settings hold a continuation for each of the three tools, a prompt
\* for each of them, and at least one terminal default
Complete(settings) ==
    /\ CONTINUATION_TOOLS \subseteq DOMAIN settings.continuations
    /\ DOMAIN DefaultPrompts \subseteq DOMAIN settings.prompts
    /\ DOMAIN settings.terminals.defaults # {}

\* a load returned settings from a file that a save of valid settings wrote
LoadedAfterSave == sres.op = "load" /\ sres.fresh /\ sres.raised = ""

\* C15 as stated: load_user_settings after save_user_settings(s), for any
\* valid s, returns settings equal to s in continuations, prompts,
\* notifications, terminals and kill_old_sessions.
C15_RoundTrip == LoadedAfterSave => SameSettings(sres.settings, sres.given)

\* C15, amended: the same for every valid s that holds a continuation for
\* each of claude, codex and gemini, a prompt for each of them and a
\* terminals.defaults that is not empty.
C15_RoundTripComplete ==
    (LoadedAfterSave /\ Complete(sres.given)) => SameSettings(sres.settings, sres.given)

\* customised complete settings came back from a save and a load
C15_Witness ==
    /\ LoadedAfterSave
    /\ Complete(sres.given)
    /\ ~SameSettings(sres.given, DefaultSettings)
    /\ SameSettings(sres.settings, sres.given)
    /\ target = Doc(settings_to_dict(sres.given))

----------------------------------------------------------------------------
(* Properties of the command line *)

\* the commands that take a tool name
ToolCommands ==
    { "enable", "disable", "run", "continuation set", "continuation disable",
      "prompt set", "prompt show" }

\* the names among ToolArgs that spell claude, codex or gemini in some case
AcceptedNames == {"claude", "codex", "gemini", "CLAUDE", "Codex", "Gemini"}

\* C16: a command that takes tool names raises FireError exactly when one
\* of the names it is given is not claude, codex or gemini in some case of
\* letters; when it does, it has called no collaborator (no config manager,
\* launcher, settings loader or saver) and no file, backup, hook script or
\* process has changed.
C16_ToolNamesChecked ==
    [][ cli'.cmd \in ToolCommands =>
            LET names == {cli'.tool} \cup
                            (IF cli'.cmd = "continuation set" THEN {cli'.arg} ELSE {})
            IN  /\ (cli'.raised = "FireError") <=> ~(names \subseteq AcceptedNames)
                /\ cli'.raised = "FireError" =>
                      /\ cli'.called = <<>>
                      /\ UNCHANGED <<target, tmp, backups, home, stateFile, procs>> ]_vars

\* continuation set was refused for its target although its source, in
\* mixed case, is a tool; the settings file is there and was left alone
C16_Witness ==
    /\ cli.cmd = "continuation set"
    /\ cli.tool = "Codex"
    /\ cli.arg = "cursor"
    /\ cli.raised = "FireError"
    /\ cli.called = <<>>
    /\ target.exists
    /\ target = cres.pre

\* C17: install calls backup_legacy_configs first and only when
\* backup_legacy is set, then install_hooks, then migrate_from_legacy when
\* migrate is set and setup_configs otherwise; the legacy backup holds the
\* configuration file as it was before the command.
C17_InstallOrder ==
    cli.cmd = "install" =>
        /\ cli.called =
              (IF "backup_legacy" \in cli.flags THEN <<"backup_legacy_configs">> ELSE <<>>)
                  \o <<"install_hooks">>
                  \o <<IF "migrate" \in cli.flags THEN "migrate_from_legacy" ELSE "setup_configs">>
        /\ \A f \in HookScripts : home.scripts[f] # ""
        /\ ("backup_legacy" \in cli.flags /\ cres.pre.exists) =>
              /\ cres.backup # NoBackup
              /\ backups[cres.backup] = cres.pre

\* an install with both flags migrated a legacy file after backing it up
C17_Witness ==
    /\ cli.cmd = "install"
    /\ cli.flags = {"backup_legacy", "migrate"}
    /\ cli.raised = ""
    /\ cres.pre.exists
    /\ target # cres.pre
    /\ cres.backup # NoBackup
    /\ backups[cres.backup] = cres.pre

\* the settings a load of the file returns
Loaded(file) == settings_in_force(file)

\* C18: after a successful continuation set the saved settings are those
\* loaded before with the source's entry enabled and pointing at the
\* target; after a successful continuation disable they are those loaded
\* before with only the enabled flag of the source's entry cleared.
C18_OnlySourceEntryChanges ==
    /\ (cli.cmd = "continuation set" /\ cli.raised = "") =>
          Loaded(target) =
              [Loaded(cres.pre) EXCEPT
                  !.continuations[validate_tool(cli.tool).tool] =
                      ContinuationPrefs(TRUE, validate_tool(cli.arg).tool)]
    /\ (cli.cmd = "continuation disable" /\ cli.raised = "") =>
          Loaded(target) =
              [Loaded(cres.pre) EXCEPT
                  !.continuations[validate_tool(cli.tool).tool].enabled = FALSE]

\* Claude's continuation, which pointed at codex, was disabled and still
\* points at codex
C18_Witness ==
    /\ cli.cmd = "continuation disable"
    /\ cli.raised = ""
    /\ cli.tool = "claude"
    /\ cres.pre.exists
    /\ Loaded(cres.pre).continuations["claude"] = ContinuationPrefs(TRUE, "codex")
    /\ Loaded(target).continuations["claude"] = ContinuationPrefs(FALSE, "codex")

----------------------------------------------------------------------------
(* Properties of the version bump tool *)

\* the run of bump_version found a git repository, a clean tree, and pulled
ChecksPassed == bump.env.repo /\ bump.env.status = "clean" /\ bump.env.pull

\* the command was run
HasRun(command) == \E i \in 1..Len(bump.ran) : bump.ran[i] = command

\* C19: a run of bump_version that runs git tag has before it, in this
\* order, found the git repository, found the working tree clean and
\* pulled, all three with success; a run in which one of the three fails
\* exits with status 1 and has run neither git tag nor a git push, and the
\* repository has the tags it had.
C19_TagOnlyAfterChecks ==
    bump.op = "bump" =>
        /\ HasRun("git tag") =>
              /\ ChecksPassed
              /\ Len(bump.ran) >= 5
              /\ SubSeq(bump.ran, 1, 3) = <<"is_git_repo", "git status", "git pull">>
              /\ \A i \in 1..3 : bump.ran[i] # "git tag"
              /\ bump.ran[5] = "git tag"
        /\ ~ChecksPassed =>
              /\ bump.status = 1
              /\ ~HasRun("git tag")
              /\ ~HasRun("git push")
              /\ ~HasRun("git push --tags")
              /\ tags = bump.tags0

\* a run passed the three checks, created the next tag and pushed it
C19_Witness ==
    /\ bump.op = "bump"
    /\ ChecksPassed
    /\ bump.status = 0
    /\ bump.ran = <<"is_git_repo", "git status", "git pull", "git tag -l", "git tag",
                    "git push", "git push --tags">>
    /\ tags = Append(bump.tags0, bump.version)

\* a tag of three numbers
WellFormed(tag) == Len(tag) = 3 /\ \A i \in 1..3 : IntOf(tag[i]) # -1

\* C20: get_next_version returns v1.0.0 when there is no tag or git fails;
\* otherwise, when some tag is well formed, it returns the greatest
\* well-formed tag by (major, minor, patch), whatever malformed tags there
\* are, with the patch number plus one.
C20_NextVersionFromGreatestTag ==
    bump.op = "next" =>
        IF ~bump.env.list \/ tags = <<>> THEN bump.version = FirstVersion
        ELSE \A i \in 1..Len(tags) :
                (/\ WellFormed(tags[i])
                 /\ \A j \in 1..Len(tags) :
                        WellFormed(tags[j]) =>
                            ~TupleLess(version_key(tags[i]), version_key(tags[j]))) =>
                    bump.version = << tags[i][1], tags[i][2], ToString(IntOf(tags[i][3]) + 1) >>

----------------------------------------------------------------------------
(* Properties of vomgr update *)

\* the commands that install or upgrade something
InstallingCommands ==
    {NpmInstall(NPM_PACKAGES[i]) : i \in 1..Len(NPM_PACKAGES)}
        \cup {"brew update", BrewUpgrade("codex"), UvInstall, PipInstall}

\* C21: with dry_run set, vomgr update runs no install or upgrade command and
\* writes nothing, the update log included.
C21_DryRunNoSideEffects ==
    (upd.op = "update" /\ "dry_run" \in upd.flags) =>
        /\ \A i \in 1..Len(upd.ran) : upd.ran[i] \notin InstallingCommands
        /\ upd.logged = <<>>

----------------------------------------------------------------------------
(* Properties of concurrent and repeated hand-offs *)

\* C22: a hand-off never terminates the process it has just started:
\* rotate_session called from launch_from_config sends no terminate and no
\* kill to the pid Popen returned, even when the recorded session carries
\* that pid.
C22_HandOffSparesNewProcess ==
    (ret.op = "launch" /\ ret.started) =>
        \A i \in 1..Len(calls) :
            calls[i].c \in {"terminate", "kill"} => calls[i].pid # ret.arg.pid

\* both overlapping hand-offs have left rotate_session
RotationsDone == \A h \in Helpers : rot[h].pc = "done"

\* the process pid has been sent a terminate
Terminated(pid) == \E i \in 1..Len(calls) : calls[i] = Call("terminate", pid)

\* the state file records the process pid
Recorded(pid) == read_session(stateFile).found /\ read_session(stateFile).info.pid = pid

\* C23: once overlapping rotate_session calls with kill_old true have
\* completed, every process the hand-offs started that has not been sent a
\* terminate is the one recorded in the state file.
C23_NoProcessLeftUnrecorded ==
    RotationsDone =>
        \A h \in Helpers : ~Terminated(rot[h].pid) => Recorded(rot[h].pid)


\* the pid of the last write_session of the hand-offs
LastWritten ==
    LET writes == {i \in 1..Len(calls) : calls[i].c = "write"}
    IN  IF writes = {} THEN 0
        ELSE calls[CHOOSE i \in writes : \A j \in writes : j <= i].pid

\* C23 (amended): once the overlapping rotate_session calls have completed,
\* the state file holds the record of the hand-off that wrote last or no
\* JSON at all, or, when read_session raised in every call, what it held
\* before; and a terminate has been sent only to a pid that one of the
\* calls read from the state file.
C23_LastWriterRecorded ==
    RotationsDone =>
        /\ LastWritten = 0 => stateFile = JsonFile(JList) /\ \A h \in Helpers : rot[h].old.raised # ""
        /\ LastWritten # 0 =>
                /\ stateFile.exists
                /\ stateFile.json => Recorded(LastWritten)
                /\ \E h \in Helpers : rot[h].pid = LastWritten /\ rot[h].old.raised = ""
        /\ \A i \in 1..Len(calls) :
                calls[i].c = "terminate" =>
                    \E h \in Helpers : rot[h].old.found /\ rot[h].old.info.pid = calls[i].pid

\* both hand-offs read the state file before either wrote it: both
\* processes run, neither was sent a terminate, one is recorded
C23_Witness ==
    /\ RotationsDone
    /\ \A h \in Helpers : ~rot[h].old.found /\ procs[rot[h].pid].exists /\ ~Terminated(rot[h].pid)
    /\ Recorded(rot["second"].pid)
    /\ ~Recorded(rot["first"].pid)


\* both hook invocations and their helpers have ended
InvocationsDone == \A i \in Invocations : inv.at[i].pc = "done"

WroteNoEarlier(j, i) ==
    \E m, n \in 1..Len(inv.order) : inv.order[m] = i /\ inv.order[n] = j /\ m <= n

----------------------------------------------------------------------------
(* Properties of a write beside another process *)

\* C25: a failed ConfigManager write leaves in place what another process
\* wrote to the target between the start of the write and the failure: the
\* rollback neither overwrites nor deletes it.
C25_RollbackSparesOthersChange ==
    (wr.pc = "raised" /\ wr.touched) => target = Elsewhere

\* C25 (amended): a failed ConfigManager write ends with no temporary file
\* and with the target as it was when the write began - restored from the
\* backup, or removed when there was no file then - whatever another
\* process wrote to the target in between.
C25_RollbackRestoresStart ==
    wr.pc = "raised" => (tmp = Missing /\ target = wr.pre)

\* validation failed after another process had written the target, and the
\* rollback has put the old content back over it
C25_Witness ==
    /\ wr.pc = "raised"
    /\ wr.touched
    /\ wr.pre.exists
    /\ target = wr.pre
    /\ target # Elsewhere

----------------------------------------------------------------------------
(* Properties of the backups *)

\* the operations of ConfigManager that make a backup
ManagerBackups == ManagerWrites \cup {"backup_legacy"}

\* C26: a backup file, once created, is never modified or replaced: every
\* backup that existed before an operation of ConfigManager still holds
\* what it held.
C26_BackupsNeverReplaced ==
    cres.op \in ManagerBackups =>
        \A c \in Clock : cres.backups0[c].exists => backups[c] = cres.backups0[c]

\* C26 (amended): an operation changes a backup file only by copying over
\* it what the target held before the operation, and the backup the
\* operation made holds that content when the operation ends.
C26_BackupHoldsLastContent ==
    cres.op \in ManagerBackups =>
        /\ \A c \in Clock : backups[c] \in {cres.backups0[c], cres.pre}
        /\ cres.backup # NoBackup => backups[cres.backup] = cres.pre

\* a second write within one second has replaced the backup of the first
C26_Witness ==
    /\ cres.op \in ManagerWrites
    /\ cres.backup \in Clock
    /\ cres.backups0[cres.backup].exists
    /\ cres.backups0[cres.backup] # cres.pre
    /\ backups[cres.backup] = cres.pre

----------------------------------------------------------------------------
(* Properties of a hand-off that starts nothing *)

\* C27: when launch_from_config has no command to run, or Popen raises, it
\* returns without a call to any process, with the process table and the
\* session state file as they were.
C27_FailedLaunchChangesNothing ==
    [][ (ret'.op = "launch" /\ ~ret'.started) =>
            (calls' = <<>> /\ procs' = procs /\ stateFile' = stateFile) ]_vars

\* Popen raised while the state file records a running session of a
\* managed tool: that process still runs and the record is in place
C27_Witness ==
    /\ ret.op = "launch"
    /\ ~ret.started
    /\ CommandOf(ret.config) # <<>>
    /\ EnvGet(ret.config.env, KillKey, "1") = "1"
    /\ calls = <<>>
    /\ read_session(stateFile).found
    /\ ProcAt(procs, read_session(stateFile).info.pid).exists
    /\ NameMatches(ProcAt(procs, read_session(stateFile).info.pid).name)

\* the last step was a sync_files that found the name at two or more paths,
\* one of them a file that is not empty, and no unlink was refused
Synced ==
    /\ sync.op = "sync_files"
    /\ Len(sync.discovered) >= 2
    /\ sync.parent # 0
    /\ sync.env.unlink = {}

Discovered == {sync.discovered[i] : i \in 1..Len(sync.discovered)}

\* C28: For each instruction file name found at two or more paths, sync_files
\* takes the most recently modified non-empty file as parent and replaces
\* every other path by a hard link to it, or by a symbolic link to it when the
\* hard link cannot be created; afterwards every path that was discovered
\* still exists and has the parent's content.
C28_SyncLinksEveryPath ==
    Synced =>
        /\ \A p \in Discovered :
                PathExists(sync.pre, p) /\ ContentOf(sync.pre, p) # ""
                    => MtimeOf(sync.pre, p) <= MtimeOf(sync.pre, sync.parent)
        /\ \A p \in Discovered \ {sync.parent} :
                \/ tree.paths[p] = File(Resolve(sync.pre, sync.parent))
                \/ p \in sync.env.link /\ tree.paths[p] = Symlink(sync.parent)
        /\ \A p \in Discovered :
                /\ PathExists(tree, p)
                /\ ContentOf(tree, p) = ContentOf(sync.pre, sync.parent)

\* the lines read_text gives of a file: none when it is missing or unreadable
LinesRead(file) == IF file.exists /\ file.readable THEN file.lines ELSE <<>>

\* the numbers of S in ascending order
RECURSIVE Ascending(_)
Ascending(S) ==
    IF S = {} THEN <<>>
    ELSE LET least == CHOOSE n \in S : \A k \in S : n <= k
         IN  <<least>> \o Ascending(S \ {least})

\* of the lines numbered in S, the first five, stripped, in file order
FirstFive(lines, S) ==
    LET first == Ascending({i \in S : Cardinality({j \in S : j < i}) < 5})
    IN  [n \in 1..Len(first) |-> strip(lines[first[n]])]

OpenItems(lines) ==
    {i \in 1..Len(lines) : startswith(strip(lines[i]), <<"-", " ", "[", " ", "]">>)}

NonEmptyLines(lines) == {i \in 1..Len(lines) : strip(lines[i]) # <<>>}

\* the template build_prompt is to take: the user's, then the packaged one,
\* then the fallback text
TemplateTaken ==
    IF built.source \in DOMAIN built.prompts /\ built.prompts[built.source] # ""
    THEN built.prompts[built.source]
    ELSE IF built.source \in DOMAIN DefaultPrompts THEN DefaultPrompts[built.source]
    ELSE "Continue working on the current task"

\* C29: build_prompt takes the source tool's template (user settings, then
\* packaged defaults, then the fallback text); it fills {todo} with at most
\* the first five lines of TODO.md that start with "- [ ]" after stripping,
\* in file order, checked items never among them, or with "No open TODO
\* items." when there are none, and {plan} with at most the first five
\* non-empty lines of PLAN.md (stripped; a line of blanks counts as empty) or
\* with "No plan summary available."; if formatting fails it returns the
\* template unformatted.
C29_PromptFromTodoAndPlan ==
    built.op = "build_prompt" =>
        LET todo_lines == LinesRead(built.project.todo)
            plan_lines == LinesRead(built.project.plan)
            todo == IF OpenItems(todo_lines) = {} THEN "No open TODO items."
                    ELSE join(FirstFive(todo_lines, OpenItems(todo_lines)))
            plan == IF NonEmptyLines(plan_lines) = {} THEN "No plan summary available."
                    ELSE join(FirstFive(plan_lines, NonEmptyLines(plan_lines)))
        IN  built.prompt =
                CASE TemplateTaken \in {TemplateUnknown, TemplateUnbalanced} -> TemplateTaken
                  [] TemplateTaken = TemplateBoth ->
                        "For " \o built.target \o " after " \o built.source \o ": "
                            \o todo \o " Plan: " \o plan
                  [] TemplateTaken = TemplateEscaped -> "{todo} is " \o todo
                  [] TemplateTaken \in {DefaultPrompts["claude"], DefaultPrompts["codex"]} ->
                        TemplateTaken \o ":\n" \o todo
                  [] TemplateTaken = DefaultPrompts["gemini"] -> TemplateTaken \o ":\n" \o plan
                  [] OTHER -> TemplateTaken

\* a prompt was built from a TODO.md with more than five open items, one of
\* them indented, and a checked item before the last of them, and both
\* texts were filled in
C29_Witness ==
    /\ built.op = "build_prompt"
    /\ Cardinality(OpenItems(LinesRead(built.project.todo))) > 5
    /\ built.project.todo.lines[2] = ItemDone
    /\ \E i \in OpenItems(LinesRead(built.project.todo)) : built.project.todo.lines[i] = ItemTwo
    /\ built.project.plan.exists
    /\ built.prompt # built.prompts[built.source]

\* what a configuration file parses to; an absent file counts as empty
DocOf(file) == IF file.exists /\ file.syntax THEN file.doc ELSE EmptyDict

\* a with key removed, when it is there
Without(d, key) == [k \in DOMAIN d \ {key} |-> d[k]]

\* the hooks of a Claude settings document other than the Stop entry
OtherHooks(d) == Without(IF "hooks" \in DOMAIN d THEN d["hooks"] ELSE EmptyDict, "Stop")

\* the last operation enabled or disabled the hook of the family's file
HookSwitched == cres.op \in {"enable", "disable"} /\ family \in {"claude", "codex"}

\* the hook the last operation was to remove was not there
HookAbsent ==
    \/ ~cres.pre.exists
    \/ /\ cres.pre.syntax
       /\ IF family = "claude"
          THEN ~("hooks" \in DOMAIN cres.pre.doc /\ "Stop" \in DOMAIN cres.pre.doc["hooks"])
          ELSE "notify" \notin DOMAIN cres.pre.doc

\* C30: enable_claude_hook and disable_claude_hook change only the Stop entry
\* under hooks of the Claude settings (disable removes hooks when that leaves
\* it empty), enable_codex_hook and disable_codex_hook change only the notify
\* key of the Codex config; every other key of the file keeps its value, and
\* disabling when the hook is absent or the file is missing writes nothing.
C30_HookSwitchKeepsOtherKeys ==
    HookSwitched =>
        /\ target.exists => target.syntax \/ target = cres.pre
        /\ target.exists /\ target.syntax =>
                IF family = "claude"
                THEN /\ Without(DocOf(target), "hooks") = Without(DocOf(cres.pre), "hooks")
                     /\ OtherHooks(DocOf(target)) = OtherHooks(DocOf(cres.pre))
                     /\ "hooks" \in DOMAIN target.doc => target.doc["hooks"] # EmptyDict
                                                            \/ target = cres.pre
                ELSE Without(DocOf(target), "notify") = Without(DocOf(cres.pre), "notify")
        /\ ~target.exists => ~cres.pre.exists
        /\ cres.op = "disable" /\ HookAbsent =>
                /\ ~cres.wrote
                /\ target = cres.pre
                /\ backups = cres.backups0

\* disable_claude_hook wrote a settings file that held a Stop hook, another
\* hook and another key
C30_Witness ==
    /\ HookSwitched
    /\ cres.op = "disable"
    /\ family = "claude"
    /\ cres.raised = ""
    /\ cres.wrote
    /\ cres.pre.exists /\ cres.pre.syntax
    /\ "theme" \in DOMAIN cres.pre.doc
    /\ "hooks" \in DOMAIN cres.pre.doc
    /\ {"Stop", "PreToolUse"} \subseteq DOMAIN cres.pre.doc["hooks"]
    /\ target.exists /\ "hooks" \in DOMAIN target.doc
    /\ "Stop" \notin DOMAIN target.doc["hooks"]

====
